---- MODULE Spec2Model ----
(***************************************************************************)
(* External merge-sort of tabular files (split_merge_hub_demo).            *)
(*                                                                         *)
(* Spec     the library engine: parallel_merge_sort (delimited family,     *)
(*          src/parallel_merge/mod.rs) and parallel_merge_sort_mtlog       *)
(*          (fixed-width family, both the variant of mod.rs and the one    *)
(*          of mtlog.rs), run step by step against a modelled filesystem.  *)
(* SpecCli  the command line tools (src/main.rs and src/bin/main.rs).      *)
(* SpecIo   the delimited engine when a read of a chunk returns Err in a   *)
(*          merge.                                                         *)
(* SpecCols the delimited engine asked for sort columns that may not       *)
(*          resolve, over inputs one of which may not exist.               *)
(* SpecPerm the delimited engine given its inputs in descending order.     *)
(* SpecMerge the delimited engine when no I/O operation fails.             *)
(*                                                                         *)
(* Text is a sequence of byte codes, so that lexicographic comparison and  *)
(* integer parsing are computed the way the code computes them.  A CSV     *)
(* row is a sequence of fields, a CSV file a sequence of rows whose first  *)
(* row is the header row.                                                  *)
(***************************************************************************)
EXTENDS Integers, Sequences, FiniteSets, TLC

VARIABLES
    family,      \* which pipeline runs: "csv", "mtlog" (mtlog.rs), "mtlog_mod" (mod.rs)
    inputs,      \* the caller's list of input paths
    sortCols,    \* the caller's sort columns
    outPath,     \* the caller's output path
    env,         \* the environment variables, parsed
    fs,          \* the filesystem: path -> sequence of rows / lines
    pc,          \* position of the run
    result,      \* "running", "ok", "err"
    hdr,         \* the validated header row
    tempDirs,    \* the temporary directories the run owns, in creation order
    tempFiles,   \* every temporary file the run has created so far
    fileIdx,     \* split phase: index of the input being split
    pending,     \* split phase: chunk workers of the current input still to run
    chunks,      \* the chunk list (split phase: collected; merge phase: current_chunks)
    nextChunks,  \* merge phase: outputs of the pass so far
    pass,        \* merge phase: pass counter
    wtr,         \* the writer parallel_merge_chunks holds on the output: rows buffered
    buf,         \* fixed-width split phase: all_lines, the lines not yet in a chunk
    cli,         \* state of a command line run (SpecCli)
    running,     \* fixed-width group merges: the tasks that hold their readers open
    peakOpen,    \* the most chunk files open for reading at one moment, so far
    faulted      \* the read of a chunk that returned Err during a merge (SpecIo)

vars == <<family, inputs, sortCols, outPath, env, fs, pc, result, hdr, tempDirs,
          tempFiles, fileIdx, pending, chunks, nextChunks, pass, wtr, buf, cli,
                   running, peakOpen, faulted>>

-----------------------------------------------------------------------------
(* Bounds of the model *)

MaxRows == 2      \* data rows (lines) per input file
MaxK == 4         \* largest MERGE_K tried
MaxTmp == 2       \* names the temporary-directory generator chooses from

-----------------------------------------------------------------------------
(* Text *)

Min(a, b) == IF a < b THEN a ELSE b
Max(a, b) == IF a > b THEN a ELSE b

ChSpace == 32
ChPlus == 43
ChMinus == 45
Ch0 == 48
Ch9 == 57

IsDigit(c) == c >= Ch0 /\ c <= Ch9

\* str::cmp: byte-lexicographic, -1 / 0 / 1
RECURSIVE StrCmp(_, _)
StrCmp(a, b) ==
    IF a = <<>> /\ b = <<>> THEN 0
    ELSE IF a = <<>> THEN -1
    ELSE IF b = <<>> THEN 1
    ELSE IF Head(a) < Head(b) THEN -1
    ELSE IF Head(a) > Head(b) THEN 1
    ELSE StrCmp(Tail(a), Tail(b))

IntCmp(a, b) == IF a < b THEN -1 ELSE IF a > b THEN 1 ELSE 0

RECURSIVE DigitsValue(_)
DigitsValue(s) ==
    IF s = <<>> THEN 0
    ELSE DigitsValue(SubSeq(s, 1, Len(s) - 1)) * 10 + (s[Len(s)] - Ch0)

AllDigits(s) == Len(s) > 0 /\ \A i \in 1..Len(s) : IsDigit(s[i])

\* str::parse::<i64>: an optional sign and at least one digit; [ok, val]
ParseI64(s) ==
    IF AllDigits(s) THEN [ok |-> TRUE, val |-> DigitsValue(s)]
    ELSE IF Len(s) > 1 /\ s[1] = ChPlus /\ AllDigits(Tail(s))
        THEN [ok |-> TRUE, val |-> DigitsValue(Tail(s))]
    ELSE IF Len(s) > 1 /\ s[1] = ChMinus /\ AllDigits(Tail(s))
        THEN [ok |-> TRUE, val |-> 0 - DigitsValue(Tail(s))]
    ELSE [ok |-> FALSE, val |-> 0]

\* usize -> decimal text, as format!("{}", i) renders it
RECURSIVE DecStr(_)
DecStr(i) == IF i < 10 THEN <<Ch0 + i>> ELSE DecStr(i \div 10) \o <<Ch0 + (i % 10)>>

-----------------------------------------------------------------------------
(* Delimited comparator and in-memory sort *)

\* StringRecord::get(idx).unwrap_or(""), idx counted from 0
FieldOr(rec, idx) == IF idx + 1 <= Len(rec) THEN rec[idx + 1] ELSE <<>>

\* `if ord != Ordering::Equal { return ord; }`, else the remaining keys decide
OrElse(ord, rest) == IF ord # 0 THEN ord ELSE rest

\* match (a_val.parse::<i64>(), b_val.parse::<i64>())
CompareParsed(pa, pb, av, bv) ==
    IF pa.ok /\ pb.ok THEN IntCmp(pa.val, pb.val) ELSE StrCmp(av, bv)

CompareField(av, bv) == CompareParsed(ParseI64(av), ParseI64(bv), av, bv)

RECURSIVE compare_records(_, _, _)
compare_records(a, b, sort_indices) ==
    IF sort_indices = <<>> THEN 0
    ELSE OrElse(CompareField(FieldOr(a, Head(sort_indices)), FieldOr(b, Head(sort_indices))),
                compare_records(a, b, Tail(sort_indices)))

-----------------------------------------------------------------------------
(* Fixed-width comparator.  A line is [bytes, len]: len is its length in   *)
(* bytes and bytes its leading bytes (the key fields); the bytes after     *)
(* them are padding.                                                       *)

TOTAL_LENGTH == 4310

OFFSETS == << <<0, 8>>, <<8, 6>>, <<14, 7>>, <<21, 4>>, <<25, 1>>, <<26, 8>>, <<34, 1>>, <<35, 1>> >>

ByteAt(line, i) == IF i <= Len(line.bytes) THEN line.bytes[i] ELSE ChSpace

RECURSIVE TrimStart(_)
TrimStart(s) == IF s # <<>> /\ Head(s) = ChSpace THEN TrimStart(Tail(s)) ELSE s

RECURSIVE TrimEnd(_)
TrimEnd(s) ==
    IF s # <<>> /\ s[Len(s)] = ChSpace THEN TrimEnd(SubSeq(s, 1, Len(s) - 1)) ELSE s

Trim(s) == TrimEnd(TrimStart(s))

\* line.get(start..start+len).unwrap_or("").trim(), col counted from 0
get_mtlog_field(line, col) ==
    IF col >= Len(OFFSETS) THEN <<>>
    ELSE LET start == OFFSETS[col + 1][1]
             len == OFFSETS[col + 1][2]
         IN IF start + len > line.len THEN <<>>
            ELSE Trim([i \in 1..len |-> ByteAt(line, start + i)])

\* str::parse::<u64>().unwrap_or(0)
ParseU64Or0(s) ==
    IF AllDigits(s) THEN DigitsValue(s)
    ELSE IF Len(s) > 1 /\ s[1] = ChPlus /\ AllDigits(Tail(s)) THEN DigitsValue(Tail(s))
    ELSE 0

\* match col.col_type: Num compares the parsed numbers, Date / Time / String
\* compare the text
CompareTyped(col_type, v1, v2) ==
    IF col_type = "Num" THEN IntCmp(ParseU64Or0(v1), ParseU64Or0(v2)) ELSE StrCmp(v1, v2)

RECURSIVE compare_mtlog_by_columns(_, _, _)
compare_mtlog_by_columns(a, b, sort_columns) ==
    IF sort_columns = <<>> THEN 0
    ELSE OrElse(CompareTyped(Head(sort_columns).col_type,
                             get_mtlog_field(a, Head(sort_columns).index),
                             get_mtlog_field(b, Head(sort_columns).index)),
                compare_mtlog_by_columns(a, b, Tail(sort_columns)))

-----------------------------------------------------------------------------
(* Comparators of the command line tools *)

\* src/main.rs compare_records: byte order of the key fields, a key missing
\* from either record is passed over
RECURSIVE cli_compare_records(_, _, _)
cli_compare_records(a, b, column_indices) ==
    IF column_indices = <<>> THEN 0
    ELSE LET idx == Head(column_indices)
         IN OrElse(IF idx + 1 <= Len(a) /\ idx + 1 <= Len(b)
                       THEN StrCmp(a[idx + 1], b[idx + 1]) ELSE 0,
                   cli_compare_records(a, b, Tail(column_indices)))

\* the closures of merge_sorted_files (src/main.rs) and external_sort
\* (src/bin/main.rs): byte order of get(i).unwrap_or("")
RECURSIVE cli_compare_fields(_, _, _)
cli_compare_fields(a, b, header_indices) ==
    IF header_indices = <<>> THEN 0
    ELSE OrElse(StrCmp(FieldOr(a, Head(header_indices)), FieldOr(b, Head(header_indices))),
                cli_compare_fields(a, b, Tail(header_indices)))

\* record.iter().collect::<String>(): the fields run together
RECURSIVE ConcatFields(_)
ConcatFields(rec) == IF rec = <<>> THEN <<>> ELSE Head(rec) \o ConcatFields(Tail(rec))

\* SortedChunk::cmp(a, b), reversed: a and b are the current_record options
\* [some, rec] of two chunks.  The heap pops the chunk that is greatest
\* under cmp: the one whose record is smallest as a string, a chunk with no
\* current record before any other.
sorted_chunk_order(a, b) ==
    IF a.some /\ b.some THEN StrCmp(ConcatFields(a.rec), ConcatFields(b.rec))
    ELSE IF a.some THEN 1
    ELSE IF b.some THEN -1
    ELSE 0

-----------------------------------------------------------------------------
(* Paths.  A path is [dir, kind, key, ext]: the directory, the fixed part  *)
(* of the file name, its variable part and its extension.                  *)

ChUnderscore == 95
ChA == 97
ChB == 98

OutDir == 0          \* where the caller wants the output
SysTmp == 9          \* the system temporary directory itself
TmpBase == 10        \* temporary directories are TmpBase + 1 .. TmpBase + MaxTmp + 2

KindCode(kind) ==
    CASE kind = "in" -> 1
      [] kind = "out" -> 2
      [] kind = "chunk_parallel" -> 3
      [] kind = "merge_pass" -> 4
      [] kind = "group_merge" -> 5
      [] kind = "tmpfile" -> 6
      [] OTHER -> 7

\* p.to_string_lossy(): directory, file name, in that order
PathStr(p) == <<p.dir, KindCode(p.kind)>> \o p.key

InputPath(d, stem) == [dir |-> d, kind |-> "in", key |-> stem, ext |-> "csv"]
OutputPath(ext) == [dir |-> OutDir, kind |-> "out", key |-> <<>>, ext |-> ext]

\* a chunk name that leaves the chunk index out
ChunkPath_no_index(d, file_stem, i) ==
    [dir |-> d, kind |-> "chunk_parallel", key |-> file_stem, ext |-> "csv"]

\* temp_dir.path().join(format!("chunk_parallel_{}_{}.csv", file_stem, i))
ChunkPath(d, file_stem, i) ==
    [dir |-> d, kind |-> "chunk_parallel", key |-> file_stem \o <<ChUnderscore>> \o DecStr(i),
     ext |-> "csv"]

\* temp_dir.path().join(format!("merge_pass{}_group{}.csv", pass, group_idx))
MergePassPath(d, p, group_idx) ==
    [dir |-> d, kind |-> "merge_pass", key |-> DecStr(p) \o <<ChUnderscore>> \o DecStr(group_idx),
     ext |-> "csv"]

\* temp_dir.path().join(format!("group_merge_{}.mtlog", i))
GroupMergePath(d, i) == [dir |-> d, kind |-> "group_merge", key |-> DecStr(i), ext |-> "mtlog"]

\* tempfile::NamedTempFile::new(): a fresh name in the system temporary directory
TmpFilePath(n) == [dir |-> SysTmp, kind |-> "tmpfile", key |-> DecStr(n), ext |-> ""]

-----------------------------------------------------------------------------
(* A comparator value names the ordering a sort or a heap runs with *)

Compare(c, x, y) ==
    CASE c.kind = "csv" -> compare_records(x, y, c.keys)
      [] c.kind = "mtlog" -> compare_mtlog_by_columns(x, y, c.keys)
      [] c.kind = "cli" -> cli_compare_records(x, y, c.keys)
      [] c.kind = "fields" -> cli_compare_fields(x, y, c.keys)
      [] c.kind = "sorted_chunk" -> sorted_chunk_order(x, y)
      [] c.kind = "path" -> StrCmp(PathStr(x), PathStr(y))

\* slice::sort_by / par_sort_unstable_by on a short slice (at most 20
\* elements): insertion sort
RECURSIVE InsertSorted(_, _, _)
InsertSorted(sorted, x, c) ==
    IF sorted = <<>> THEN <<x>>
    ELSE IF Compare(c, x, sorted[Len(sorted)]) < 0
        THEN InsertSorted(SubSeq(sorted, 1, Len(sorted) - 1), x, c) \o <<sorted[Len(sorted)]>>
    ELSE sorted \o <<x>>

RECURSIVE SortBy(_, _)
SortBy(v, c) ==
    IF v = <<>> THEN <<>>
    ELSE InsertSorted(SortBy(SubSeq(v, 1, Len(v) - 1), c), v[Len(v)], c)

-----------------------------------------------------------------------------
(* std::collections::BinaryHeap over heap items [rec, src].  Positions are *)
(* counted from 0 as in the library; h[p + 1] is the item at position p.   *)

\* PartialOrd::le of the heap item.  MergeRecord::cmp is
\* compare_records(self, other).reverse(); MTLogHeapItem::cmp is
\* compare_mtlog_by_columns(other, self).  Neither reads the source index.
HeapLe(c, x, y) ==
    IF c.kind = "mtlog" THEN Compare(c, y.rec, x.rec) <= 0
    ELSE Compare(c, x.rec, y.rec) >= 0

RECURSIVE SiftUp(_, _, _, _, _)
SiftUp(h, el, start, pos, c) ==
    IF pos > start
    THEN LET parent == (pos - 1) \div 2
         IN IF HeapLe(c, el, h[parent + 1])
            THEN [h EXCEPT ![pos + 1] = el]
            ELSE SiftUp([h EXCEPT ![pos + 1] = h[parent + 1]], el, start, parent, c)
    ELSE [h EXCEPT ![pos + 1] = el]

HeapPush(h, x, c) == SiftUp(Append(h, x), x, 0, Len(h), c)

RECURSIVE SiftDownToBottom(_, _, _, _, _)

\* hole.move_to(child); child = 2 * hole.pos() + 1
MoveHole(h, el, pos, child, c) ==
    SiftDownToBottom([h EXCEPT ![pos + 1] = h[child + 1]], el, child, 2 * child + 1, c)

SiftDownToBottom(h, el, pos, child, c) ==
    LET end == Len(h)
    IN IF child + 2 <= end   \* child <= end.saturating_sub(2), child >= 1
       THEN MoveHole(h, el, pos,
                     IF HeapLe(c, h[child + 1], h[child + 2]) THEN child + 1 ELSE child, c)
       ELSE IF child = end - 1
       THEN SiftUp([h EXCEPT ![pos + 1] = h[child + 1]], el, 0, child, c)
       ELSE SiftUp(h, el, 0, pos, c)

\* [item, heap]; h is not empty
HeapPop(h, c) ==
    LET last == h[Len(h)]
        rest == SubSeq(h, 1, Len(h) - 1)
    IN IF rest = <<>> THEN [item |-> last, heap |-> <<>>]
       ELSE [item |-> rest[1],
             heap |-> SiftDownToBottom([rest EXCEPT ![1] = last], last, 0, 1, c)]

-----------------------------------------------------------------------------
(* The k-way merge loop shared by merge_k_files and merge_k_files_mtlog    *)

\* One read from a source: [some, rec, rest].  A csv reader yields Err for a
\* row whose field count differs from the first row of its file, and the
\* loop's `if let Some(Ok(..))` then leaves the source for good; read_line
\* yields every line.
ReadNext(rd, width, rem) ==
    IF rem = <<>> THEN [some |-> FALSE, rec |-> <<>>, rest |-> <<>>]
    ELSE IF rd.kind = "csv" /\ Len(Head(rem)) # width
        THEN [some |-> FALSE, rec |-> <<>>, rest |-> <<>>]
    ELSE [some |-> TRUE, rec |-> Head(rem), rest |-> Tail(rem)]

\* "Initialize heap with first record from each reader": [heap, rem]
RECURSIVE PrimeHeap(_, _, _, _, _)
PrimeHeap(h, rem, i, rd, c) ==
    IF i >= Len(rem) THEN [heap |-> h, rem |-> rem]
    ELSE LET r == ReadNext(rd, rd.widths[i + 1], rem[i + 1])
         IN PrimeHeap(IF r.some THEN HeapPush(h, [rec |-> r.rec, src |-> i], c) ELSE h,
                      [rem EXCEPT ![i + 1] = r.rest], i + 1, rd, c)

\* "while let Some(..) = heap.pop()": the records written, in order
RECURSIVE MergeLoop(_, _, _, _, _)

\* a refill that tags the record it pushes with source 0
Refill_source_zero(heap, item, r, c) ==
    IF r.some THEN HeapPush(heap, [rec |-> r.rec, src |-> 0], c) ELSE heap

\* the push after a pop: the record r read from the popped item's source
\* enters the heap under that source index; nothing is pushed at its end
Refill(heap, item, r, c) ==
    IF r.some THEN HeapPush(heap, [rec |-> r.rec, src |-> item.src], c) ELSE heap

\* the body of the loop for the popped item: write its record, read the next
\* one of the same source and push it
MergePopped(item, heap, rem, out, rd, c) ==
    LET i == item.src
        r == ReadNext(rd, rd.widths[i + 1], rem[i + 1])
    IN MergeLoop(Refill(heap, item, r, c),
                 [rem EXCEPT ![i + 1] = r.rest], Append(out, item.rec), rd, c)

PopAndMerge(p, rem, out, rd, c) == MergePopped(p.item, p.heap, rem, out, rd, c)

MergeLoop(h, rem, out, rd, c) ==
    IF h = <<>> THEN out ELSE PopAndMerge(HeapPop(h, c), rem, out, rd, c)

MergeSources(srcs, rd, c) ==
    LET p == PrimeHeap(<<>>, srcs, 0, rd, c) IN MergeLoop(p.heap, p.rem, <<>>, rd, c)

-----------------------------------------------------------------------------
(* The filesystem *)

Exists(fsys, p) == p \in DOMAIN fsys

\* File::create / from_path + writes + flush: the file holds exactly rows
WriteFile(fsys, p, rows) == (p :> rows) @@ fsys

\* TempDir::drop / TempPath::drop: the directories and files are removed
RemoveTemp(fsys, dirs, files) ==
    [q \in {x \in DOMAIN fsys : x.dir \notin dirs /\ x \notin files} |-> fsys[q]]

\* tempfile::tempdir(): a directory that does not exist yet, under a name
\* the generator picks
FreshDirs(used) ==
    LET free == {d \in (TmpBase + 1)..(TmpBase + MaxTmp + Cardinality(used)) : d \notin used}
    IN {d \in free : Cardinality({e \in free : e < d}) < MaxTmp}

\* Path::extension() == Some("csv")
\* an extension test that takes no path for a .csv file
HasCsvExt_never(p) == FALSE

HasCsvExt(p) == p.ext = "csv"

RECURSIVE SeqToBagCount(_, _)
SeqToBagCount(sq, x) ==
    IF sq = <<>> THEN 0
    ELSE (IF Head(sq) = x THEN 1 ELSE 0) + SeqToBagCount(Tail(sq), x)

RECURSIVE Flatten(_)
Flatten(ss) == IF ss = <<>> THEN <<>> ELSE Head(ss) \o Flatten(Tail(ss))

-----------------------------------------------------------------------------
(* Header / schema resolver (mod.rs) *)

ToLowerCh(c) == IF c >= 65 /\ c <= 90 THEN c + 32 ELSE c
ToLower(s) == [i \in 1..Len(s) |-> ToLowerCh(s[i])]

\* a.eq_ignore_ascii_case(b)
EqIgnoreAsciiCase(a, b) == ToLower(a) = ToLower(b)

\* headers.iter().position(|h| h.trim().eq_ignore_ascii_case(col_trimmed)):
\* 0-based position, or -1 for None
HeaderPosition(headers, col_trimmed) ==
    LET hits == {i \in 1..Len(headers) : EqIgnoreAsciiCase(Trim(headers[i]), col_trimmed)}
    IN IF hits = {} THEN -1 ELSE (CHOOSE i \in hits : \A j \in hits : i <= j) - 1

RECURSIVE get_sort_column_indices(_, _)
get_sort_column_indices(headers, sort_columns) ==
    IF sort_columns = <<>> THEN <<>>
    ELSE LET idx == HeaderPosition(headers, Trim(Head(sort_columns)))
         IN (IF idx >= 0 THEN <<idx>> ELSE <<>>)
            \o get_sort_column_indices(headers, Tail(sort_columns))

\* rdr.headers() of a file: its first row, the empty record for an empty file
HeadersOf(rows) == IF rows = <<>> THEN <<>> ELSE rows[1]

\* validate_headers: [ok, headers]; an input that cannot be opened is an error
RECURSIVE ValidateFrom(_, _, _, _)
ValidateFrom(fsys, input_paths, i, expected) ==
    IF i > Len(input_paths) THEN [ok |-> TRUE, headers |-> expected]
    ELSE IF ~Exists(fsys, input_paths[i]) THEN [ok |-> FALSE, headers |-> <<>>]
    ELSE IF i > 1 /\ HeadersOf(fsys[input_paths[i]]) # expected
        THEN [ok |-> FALSE, headers |-> <<>>]
    ELSE ValidateFrom(fsys, input_paths, i + 1, HeadersOf(fsys[input_paths[i]]))

\* a validation that reads the header of the first input only
validate_headers_first_only(fsys, input_paths) ==
    IF input_paths = <<>> \/ ~Exists(fsys, input_paths[1]) THEN [ok |-> FALSE, headers |-> <<>>]
    ELSE [ok |-> TRUE, headers |-> HeadersOf(fsys[input_paths[1]])]

validate_headers(fsys, input_paths) ==
    IF input_paths = <<>> THEN [ok |-> FALSE, headers |-> <<>>]
    ELSE ValidateFrom(fsys, input_paths, 1, <<>>)

-----------------------------------------------------------------------------
(* Chunk producer (mod.rs parallel_split_file_to_chunks) *)

BytesPerMb == 1024 * 1024
BytesPerField == 16

\* the records the pre-scan keeps: a row the reader decodes (its field count
\* equals that of the file's first row) whose field count equals the
\* validated header's
ValidRecords(rows, headers) ==
    IF rows = <<>> THEN <<>>
    ELSE LET Keep(r) == Len(r) = Len(rows[1]) /\ Len(r) = Len(headers)
         IN SelectSeq(Tail(rows), Keep)

\* chunk_size_mb * 1024 * 1024 / (headers.len() * 16).max(1), then .max(1)
ChunkSize(chunk_size_mb, headers) ==
    Max((chunk_size_mb * BytesPerMb) \div Max(Len(headers) * BytesPerField, 1), 1)

\* a chunk count that is never zero
ChunkCount_at_least_one(n, chunk_size) == Max((n + chunk_size - 1) \div chunk_size, 1)

ChunkCount(n, chunk_size) == (n + chunk_size - 1) \div chunk_size

\* a worker that writes its slice as it stands
SplitChunkRows_unsorted(all_records, chunk_size, i, headers, sort_columns) ==
    <<headers>> \o SubSeq(all_records, i * chunk_size + 1,
                          Min((i + 1) * chunk_size, Len(all_records)))

\* worker i of the split: the rows of chunk i, header first
SplitChunkRows(all_records, chunk_size, i, headers, sort_columns) ==
    LET start == i * chunk_size
        end == Min((i + 1) * chunk_size, Len(all_records))
        records == SubSeq(all_records, start + 1, end)
        sort_indices == get_sort_column_indices(headers, sort_columns)
    IN <<headers>> \o SortBy(records, [kind |-> "csv", keys |-> sort_indices])

-----------------------------------------------------------------------------
(* K-way merger (mod.rs merge_k_files) *)

\* [ok, fs]: every file is opened and its first row skipped as the header,
\* the output is created, the header written when the output path ends in
\* .csv, then the heap loop writes the records
\* no read of the run has returned Err
NoFault == [kind |-> "none", src |-> 0, at |-> 0, out |-> <<>>, expect |-> <<>>]

\* the rows rdr.records() hands out for chunk i (counted from 0) when the
\* read named by fault returns Err: that read is a row ReadNext cannot
\* decode.  rdr.records().next() reports an I/O error and a record that does
\* not decode the same way, as Some(Err(..)).
ErrRow == <<>>

RecordsRead(rows, i, fault) ==
    IF fault.kind # "none" /\ fault.src = i /\ fault.at < Len(rows)
    THEN [rows EXCEPT ![fault.at + 1] = ErrRow]
    ELSE rows

merge_k_files_reading(fsys, files, output_path, headers, sort_indices, fault) ==
    IF files = <<>> THEN [ok |-> TRUE, fs |-> fsys]
    ELSE IF \E i \in 1..Len(files) : ~Exists(fsys, files[i]) THEN [ok |-> FALSE, fs |-> fsys]
    ELSE LET srcs == [i \in 1..Len(files) |->
                        IF fsys[files[i]] = <<>> THEN <<>>
                        ELSE RecordsRead(Tail(fsys[files[i]]), i - 1, fault)]
             widths == [i \in 1..Len(files) |-> Len(HeadersOf(fsys[files[i]]))]
             merged == MergeSources(srcs, [kind |-> "csv", widths |-> widths],
                                    [kind |-> "csv", keys |-> sort_indices])
             head == IF HasCsvExt(output_path) THEN <<headers>> ELSE <<>>
         IN [ok |-> TRUE, fs |-> WriteFile(fsys, output_path, head \o merged)]

merge_k_files(fsys, files, output_path, headers, sort_indices) ==
    merge_k_files_reading(fsys, files, output_path, headers, sort_indices, NoFault)

-----------------------------------------------------------------------------
(* Fixed-width pipeline: chunking and merge (mtlog.rs, and the variant of  *)
(* the same name in mod.rs)                                                *)

\* the `for line in reader.lines()` loop of one input: [chunks, buf], the
\* sorted chunks emitted and all_lines afterwards
RECURSIVE MtConsume(_, _, _, _, _)
MtConsume(lines, all_lines, emitted, chunk_records, sort_columns) ==
    IF lines = <<>> THEN [chunks |-> emitted, buf |-> all_lines]
    ELSE LET pushed == Append(all_lines, Head(lines))
         IN IF Len(pushed) >= chunk_records
            THEN MtConsume(Tail(lines), <<>>,
                           Append(emitted, SortBy(pushed, [kind |-> "mtlog", keys |-> sort_columns])),
                           chunk_records, sort_columns)
            ELSE MtConsume(Tail(lines), pushed, emitted, chunk_records, sort_columns)

\* [ok, fs]: the output is created first, then every chunk is opened
\* (File::open(..).expect / .unwrap()), then the heap loop writes the lines
merge_k_files_mtlog(fsys, files, output_path, sort_columns) ==
    IF \E i \in 1..Len(files) : ~Exists(fsys, files[i])
    THEN [ok |-> FALSE, fs |-> WriteFile(fsys, output_path, <<>>)]
    ELSE LET srcs == [i \in 1..Len(files) |-> fsys[files[i]]]
             merged == MergeSources(srcs, [kind |-> "line", widths |-> [i \in 1..Len(files) |-> 0]],
                                    [kind |-> "mtlog", keys |-> sort_columns])
         IN [ok |-> TRUE, fs |-> WriteFile(fsys, output_path, merged)]

\* get_merge_parallel_groups / the group split of parallel_merge_sort_mtlog
GroupSize(n, parallel_groups) == (n + parallel_groups - 1) \div parallel_groups

\* chunk_files.chunks(group_size): group i, counted from 0
GroupOf(files, size, i) == SubSeq(files, i * size + 1, Min((i + 1) * size, Len(files)))

-----------------------------------------------------------------------------
(* Inputs of the model *)

StrId == <<105, 100>>          \* "id"
StrName == <<110, 97, 109, 101>> \* "name"
StrFull == <<102, 110>>        \* "fn", another column name
Str9 == <<57>>                 \* "9"
Str10 == <<49, 48>>            \* "10"
Str1a == <<49, 97>>            \* "1a"
StrX == <<120>>
StrY == <<121>>

Header == <<StrId, StrName>>
OtherHeader == <<StrId, StrFull>>

\* data rows: three keys that the comparator orders in a cycle
\* (9 < 10 numerically, "10" < "1a" < "9" bytewise), a second row with key
\* 9, and a row with a field missing
RowPool == {<<Str9, StrX>>, <<Str9, StrY>>, <<Str10, StrX>>, <<Str1a, StrX>>, <<Str9>>}

SeqsUpTo(S, n) == UNION {[1..m -> S] : m \in 0..n}

PathA == InputPath(1, <<ChA>>)       \* d1/a.csv
PathB == InputPath(1, <<ChB>>)       \* d1/b.csv
PathA2 == InputPath(2, <<ChA>>)      \* d2/a.csv

\* fixed-width lines: date and time fields, full length; one short line
Date2024 == <<50, 48, 50, 52, 48, 49, 48, 49>>
Date2023 == <<50, 48, 50, 51, 49, 50, 51, 49>>
Time0 == <<48, 48, 48, 48, 48, 48>>
Time1 == <<48, 48, 48, 48, 48, 49>>

LinePool ==
    {[bytes |-> Date2024 \o Time0, len |-> TOTAL_LENGTH],
     [bytes |-> Date2024 \o Time1, len |-> TOTAL_LENGTH],
     [bytes |-> Date2023 \o Time0, len |-> TOTAL_LENGTH],
     [bytes |-> <<50, 48, 50, 52>>, len |-> 4]}

ChunkSizeMbChoices == {0, 1}     \* CHUNK_SIZE_MB
ChunkRecordsChoices == {1, 2}    \* CHUNK_RECORDS
GroupChoices == {1, 2}           \* MERGE_PARALLEL_GROUPS

-----------------------------------------------------------------------------
(* The engine as a state machine *)

Range(f) == {f[i] : i \in DOMAIN f}

NoWriter == [open |-> FALSE, buf |-> <<>>]

InitCommon ==
    /\ pc = "start"
    /\ result = "running"
    /\ hdr = <<>>
    /\ tempDirs = <<>>
    /\ tempFiles = {}
    /\ fileIdx = 0
    /\ pending = {}
    /\ chunks = <<>>
    /\ nextChunks = <<>>
    /\ pass = 0
    /\ wtr = NoWriter
    /\ buf = <<>>
    /\ cli = "none"
    /\ running = {}
    /\ peakOpen = 0
    /\ faulted = NoFault

CsvInputLists == {<<>>, <<PathA>>, <<PathA, PathB>>, <<PathA, PathA2>>}

\* a delimited run over one of the input lists, sorting by the columns
\* named sort_columns; the input paths in absent name no file
InitCsvWith(input_lists, sort_columns, absent) ==
    /\ family = "csv"
    /\ inputs \in input_lists
    /\ sortCols = sort_columns
    /\ outPath \in {OutputPath("csv"), OutputPath("txt")}
    /\ env \in [chunk_size_mb : ChunkSizeMbChoices, merge_k : 1..MaxK,
                chunk_records : {1}, groups : {1}]
    /\ \E rows \in [Range(inputs) -> SeqsUpTo(RowPool, MaxRows)],
          hb \in {Header, OtherHeader} :
            /\ (PathB \notin Range(inputs) => hb = Header)
            /\ fs = [p \in Range(inputs) \ absent |->
                        <<IF p = PathB THEN hb ELSE Header>> \o rows[p]]
    /\ InitCommon

InitCsv == InitCsvWith(CsvInputLists, <<StrId>>, {})

MtInputLists == {<<PathA>>, <<PathA, PathB>>}

InitMtlog ==
    /\ family \in {"mtlog", "mtlog_mod"}
    /\ inputs \in MtInputLists
    /\ sortCols = <<[index |-> 0, col_type |-> "Date"]>>
    /\ outPath = OutputPath("mtlog")
    /\ env \in [chunk_size_mb : {1}, merge_k : {2},
                chunk_records : ChunkRecordsChoices, groups : GroupChoices]
    /\ \E present \in (SUBSET Range(inputs)) \ {{}} :
          /\ PathA \in present
          /\ \E lines \in [present -> SeqsUpTo(LinePool, MaxRows)] : fs = lines
    /\ InitCommon

Init == InitCsv \/ InitMtlog

\* the input paths in the order the caller gave them
InputsSorted_as_given == inputs

\* input_paths_sorted: sort_by_key(|p| p.to_string_lossy().to_string())
InputsSorted == SortBy(inputs, [kind |-> "path"])

\* a fan-in taken from MERGE_K as it is
MergeK_unchecked == env.merge_k

\* MERGE_K: "Ok(parsed) if parsed >= 2 => parsed", otherwise 2
MergeK == IF env.merge_k >= 2 THEN env.merge_k ELSE 2

AllTempDirs == Range(tempDirs)

\* what an early return leaves behind: every TempDir (and, in mod.rs's
\* fixed-width variant, every TempPath) the run holds is dropped, and
\* dropping the csv writer on the output flushes its buffer at offset 0
OverwriteStart(content, rows) == rows \o SubSeq(content, Len(rows) + 1, Len(content))

DropAll(fsys) ==
    LET flushed == IF wtr.open /\ Exists(fsys, outPath)
                   THEN WriteFile(fsys, outPath, OverwriteStart(fsys[outPath], wtr.buf))
                   ELSE fsys
    IN RemoveTemp(flushed, AllTempDirs, IF family = "mtlog_mod" THEN tempFiles ELSE {})

Finish(res, fsys) ==
    /\ result' = res
    /\ pc' = "done"
    /\ fs' = DropAll(fsys)
    /\ wtr' = NoWriter

\* ---- parallel_merge_sort (delimited) ----

CsvValidate ==
    /\ pc = "start" /\ family = "csv"
    /\ LET v == validate_headers(fs, InputsSorted)
       IN IF v.ok
          THEN /\ hdr' = v.headers
               /\ pc' = "tempdir"
               /\ UNCHANGED <<result, fs, wtr>>
          ELSE /\ Finish("err", fs)
               /\ UNCHANGED hdr
    /\ UNCHANGED <<family, inputs, sortCols, outPath, env, tempDirs, tempFiles, fileIdx,
                   pending, chunks, nextChunks, pass, buf, cli,
                   running, peakOpen, faulted>>

CsvAllRecords(i) == ValidRecords(fs[InputsSorted[i + 1]], hdr)
CsvChunkSize == ChunkSize(env.chunk_size_mb, hdr)
CsvChunkCount(i) == ChunkCount(Len(CsvAllRecords(i)), CsvChunkSize)

CsvTempDir ==
    /\ pc = "tempdir"
    /\ \E d \in FreshDirs(AllTempDirs) : tempDirs' = <<d>>
    /\ pc' = "split"
    /\ fileIdx' = 0
    /\ pending' = 0..(CsvChunkCount(0) - 1)
    /\ UNCHANGED <<family, inputs, sortCols, outPath, env, fs, result, hdr, tempFiles,
                   chunks, nextChunks, pass, wtr, buf, cli,
                   running, peakOpen, faulted>>

\* one worker of (0..chunk_count).into_par_iter()
CsvSplitChunk ==
    /\ pc = "split"
    /\ \E i \in pending :
         LET path == ChunkPath(tempDirs[1], InputsSorted[fileIdx + 1].key, i)
         IN /\ fs' = WriteFile(fs, path,
                         SplitChunkRows(CsvAllRecords(fileIdx), CsvChunkSize, i, hdr, sortCols))
            /\ tempFiles' = tempFiles \cup {path}
            /\ pending' = pending \ {i}
    /\ UNCHANGED <<family, inputs, sortCols, outPath, env, pc, result, hdr, tempDirs,
                   fileIdx, chunks, nextChunks, pass, wtr, buf, cli,
                   running, peakOpen, faulted>>

\* the chunk paths one input's split returns, in index order
CollectChunks(d, stem, count) == [j \in 1..count |-> ChunkPath(d, stem, j - 1)]

\* all_chunks.sort_by_key(|p| p.to_string_lossy().to_string())
SortChunkPaths(paths) == SortBy(paths, [kind |-> "path"])

\* .collect() of one input's workers; after the last input the chunk list
\* is sorted and the merge phase begins
CsvSplitCollect ==
    /\ pc = "split" /\ pending = {}
    /\ LET got == chunks \o CollectChunks(tempDirs[1], InputsSorted[fileIdx + 1].key,
                                          CsvChunkCount(fileIdx))
       IN IF fileIdx + 1 < Len(inputs)
          THEN /\ chunks' = got
               /\ fileIdx' = fileIdx + 1
               /\ pending' = 0..(CsvChunkCount(fileIdx + 1) - 1)
               /\ pc' = pc
          ELSE /\ chunks' = SortChunkPaths(got)
               /\ pc' = "merge_open"
               /\ UNCHANGED <<fileIdx, pending>>
    /\ UNCHANGED <<family, inputs, sortCols, outPath, env, fs, result, hdr, tempDirs,
                   tempFiles, nextChunks, pass, wtr, buf, cli,
                   running, peakOpen, faulted>>

\* parallel_merge_chunks up to its pass loop: the headers of the first
\* chunk are read and a writer on the output path is created
CsvMergeOpen ==
    /\ pc = "merge_open"
    /\ IF chunks = <<>>
       THEN /\ Finish("err", fs)
            /\ UNCHANGED <<hdr, peakOpen>>
       ELSE /\ hdr' = HeadersOf(fs[chunks[1]])
            /\ fs' = WriteFile(fs, outPath, <<>>)
            /\ wtr' = [open |-> TRUE,
                       buf |-> IF HasCsvExt(outPath) THEN <<HeadersOf(fs[chunks[1]])>> ELSE <<>>]
            /\ pc' = "merge_loop"
            /\ peakOpen' = Max(peakOpen, 1)
            /\ UNCHANGED result
    /\ UNCHANGED <<family, inputs, sortCols, outPath, env, tempDirs, tempFiles, fileIdx,
                   pending, chunks, nextChunks, pass, buf, cli,
                   running, faulted>>

\* while current_chunks.len() > 1: a new pass with its own tempdir
CsvStartPass ==
    /\ pc = "merge_loop" /\ Len(chunks) > 1
    /\ \E d \in FreshDirs(AllTempDirs) : tempDirs' = Append(tempDirs, d)
    /\ pass' = pass + 1
    /\ nextChunks' = <<>>
    /\ pc' = "pass"
    /\ UNCHANGED <<family, inputs, sortCols, outPath, env, fs, result, hdr, tempFiles,
                   fileIdx, pending, chunks, wtr, buf, cli,
                   running, peakOpen, faulted>>

\* current_chunks.chunks(k): group group_idx, counted from 0
PassGroup(current_chunks, k, group_idx) ==
    SubSeq(current_chunks, group_idx * k + 1, Min((group_idx + 1) * k, Len(current_chunks)))

SortIndices == get_sort_column_indices(hdr, sortCols)

\* the reads that can return Err during a merge of files: chunk src
\* (counted from 0), record at (counted from 0); kind tells an I/O error
\* from a record that does not decode
ReadFaults(fsys, files) ==
    UNION {[kind : {"io", "decode"}, src : {i - 1}, at : 0..(Len(fsys[files[i]]) - 2),
            out : {<<>>}, expect : {<<>>}] : i \in 1..Len(files)}

\* the records of the files without the one the failed read was for
RecordsExcept(fsys, files, fault) ==
    Flatten([i \in 1..Len(files) |->
        IF fault.src = i - 1
        THEN SubSeq(fsys[files[i]], 2, fault.at + 1)
             \o SubSeq(fsys[files[i]], fault.at + 3, Len(fsys[files[i]]))
        ELSE Tail(fsys[files[i]])])

Faulted(fsys, files, out_path, fault) ==
    [fault EXCEPT !.out = out_path, !.expect = RecordsExcept(fsys, files, fault)]

\* one iteration of `for (group_idx, group) in groups`
CsvMergeGroupReading(fault) ==
    /\ pc = "pass"
    /\ LET group_idx == Len(nextChunks)
           out_path == MergePassPath(tempDirs[Len(tempDirs)], pass, group_idx)
           r == merge_k_files_reading(fs, PassGroup(chunks, MergeK, group_idx), out_path, hdr,
                                      SortIndices, fault)
       IN IF r.ok
          THEN /\ fs' = r.fs
               /\ tempFiles' = tempFiles \cup {out_path}
               /\ peakOpen' = Max(peakOpen, Len(PassGroup(chunks, MergeK, group_idx)))
               /\ faulted' = IF fault.kind = "none" THEN faulted
                             ELSE Faulted(fs, PassGroup(chunks, MergeK, group_idx), out_path, fault)
               /\ UNCHANGED <<result, wtr>>
               /\ IF (group_idx + 1) * MergeK >= Len(chunks)
                  THEN /\ chunks' = Append(nextChunks, out_path)
                       /\ nextChunks' = <<>>
                       /\ pc' = "merge_loop"
                  ELSE /\ nextChunks' = Append(nextChunks, out_path)
                       /\ UNCHANGED <<chunks, pc>>
          ELSE /\ Finish("err", fs)
               /\ UNCHANGED <<tempFiles, chunks, nextChunks, peakOpen, faulted>>
    /\ UNCHANGED <<family, inputs, sortCols, outPath, env, hdr, tempDirs, fileIdx, pending,
                   pass, buf, cli, running>>

CsvMergeGroup == CsvMergeGroupReading(NoFault)

\* the same iteration when one read of a chunk returns Err
CsvMergeGroupFault ==
    /\ pc = "pass" /\ faulted.kind = "none"
    /\ \E fault \in ReadFaults(fs, PassGroup(chunks, MergeK, Len(nextChunks))) :
          CsvMergeGroupReading(fault)

\* the final merge_k_files into the output path, wtr.flush(), Ok(())
CsvFinalMergeReading(fault) ==
    /\ pc = "merge_loop" /\ Len(chunks) <= 1
    /\ LET r == merge_k_files_reading(fs, chunks, outPath, hdr, SortIndices, fault)
       IN Finish(IF r.ok THEN "ok" ELSE "err", r.fs)
    /\ peakOpen' = Max(peakOpen, Len(chunks))
    /\ faulted' = IF fault.kind = "none" THEN faulted ELSE Faulted(fs, chunks, outPath, fault)
    /\ UNCHANGED <<family, inputs, sortCols, outPath, env, hdr, tempDirs, tempFiles, fileIdx,
                   pending, chunks, nextChunks, pass, buf, cli, running>>

CsvFinalMerge == CsvFinalMergeReading(NoFault)

\* the final merge when one read of the last chunk returns Err
CsvFinalMergeFault ==
    /\ pc = "merge_loop" /\ Len(chunks) <= 1 /\ faulted.kind = "none"
    /\ \E fault \in ReadFaults(fs, chunks) : CsvFinalMergeReading(fault)

\* an I/O operation of the current step fails and `?` returns the error
CsvIoError ==
    /\ family = "csv"
    /\ pc \in {"tempdir", "split", "merge_open", "merge_loop", "pass"}
    /\ Finish("err", fs)
    /\ UNCHANGED <<family, inputs, sortCols, outPath, env, hdr, tempDirs, tempFiles, fileIdx,
                   pending, chunks, nextChunks, pass, buf, cli,
                   running, peakOpen, faulted>>

NextCsv ==
    \/ CsvValidate
    \/ CsvTempDir
    \/ CsvSplitChunk
    \/ CsvSplitCollect
    \/ CsvMergeOpen
    \/ CsvStartPass
    \/ CsvMergeGroup
    \/ CsvFinalMerge
    \/ CsvIoError

\* ---- parallel_merge_sort_mtlog (fixed-width) ----

MtStart ==
    /\ pc = "start" /\ family \in {"mtlog", "mtlog_mod"}
    /\ IF inputs = <<>>
       THEN Finish("err", fs)
       ELSE /\ pc' = "mt_read"
            /\ UNCHANGED <<result, fs, wtr>>
    /\ UNCHANGED <<family, inputs, sortCols, outPath, env, hdr, tempDirs, tempFiles, fileIdx,
                   pending, chunks, nextChunks, pass, buf, cli,
                   running, peakOpen, faulted>>

\* the chunk files a step creates: fresh NamedTempFile names
NewTmpFiles(n) == [j \in 1..n |-> TmpFilePath(Cardinality(tempFiles) + j - 1)]

WriteAll(fsys, paths, contents) ==
    [q \in DOMAIN fsys \cup Range(paths) |->
        IF \E j \in 1..Len(paths) : paths[j] = q
        THEN contents[CHOOSE j \in 1..Len(paths) : paths[j] = q]
        ELSE fsys[q]]

\* one iteration of `for path in input_paths`: mtlog.rs passes over an
\* input that does not exist, mod.rs fails on File::open(path)?
MtReadFile ==
    /\ pc = "mt_read" /\ fileIdx < Len(inputs)
    /\ LET path == inputs[fileIdx + 1]
       IN IF ~Exists(fs, path)
          THEN IF family = "mtlog"
               THEN /\ fileIdx' = fileIdx + 1
                    /\ UNCHANGED <<fs, pc, result, wtr, tempFiles, chunks, buf>>
               ELSE /\ Finish("err", fs)
                    /\ UNCHANGED <<fileIdx, tempFiles, chunks, buf>>
          ELSE LET r == MtConsume(fs[path], buf, <<>>, env.chunk_records, sortCols)
                   names == NewTmpFiles(Len(r.chunks))
               IN /\ fs' = WriteAll(fs, names, r.chunks)
                  /\ tempFiles' = tempFiles \cup Range(names)
                  /\ chunks' = chunks \o names
                  /\ buf' = r.buf
                  /\ fileIdx' = fileIdx + 1
                  /\ UNCHANGED <<pc, result, wtr>>
    /\ UNCHANGED <<family, inputs, sortCols, outPath, env, hdr, tempDirs, pending,
                   nextChunks, pass, cli,
                   running, peakOpen, faulted>>

\* `if !all_lines.is_empty()`: the final chunk; then the choice between one
\* merge of all chunks and the parallel group merges (mtlog.rs only)
MtFinishSplit ==
    /\ pc = "mt_read" /\ fileIdx = Len(inputs)
    /\ LET last == IF buf = <<>> THEN <<>>
                   ELSE <<SortBy(buf, [kind |-> "mtlog", keys |-> sortCols])>>
           names == NewTmpFiles(Len(last))
           chunk_files == chunks \o names
       IN /\ fs' = WriteAll(fs, names, last)
          /\ tempFiles' = tempFiles \cup Range(names)
          /\ chunks' = chunk_files
          /\ buf' = <<>>
          /\ IF family = "mtlog_mod" \/ env.groups <= 1 \/ Len(chunk_files) <= 2
             THEN /\ pc' = "mt_merge_all"
                  /\ UNCHANGED <<tempDirs, pending>>
             ELSE /\ \E d \in FreshDirs(AllTempDirs) : tempDirs' = Append(tempDirs, d)
                  /\ pending' = 0..(ChunkCount(Len(chunk_files),
                                               GroupSize(Len(chunk_files), env.groups)) - 1)
                  /\ pc' = "mt_groups"
    /\ UNCHANGED <<family, inputs, sortCols, outPath, env, result, hdr, fileIdx, nextChunks,
                   pass, wtr, cli,
                   running, peakOpen, faulted>>

\* merge_k_files_mtlog(&chunk_files, output_path, ..) / the heap loop of mod.rs
MtMergeAll ==
    /\ pc = "mt_merge_all"
    /\ LET r == merge_k_files_mtlog(fs, chunks, outPath, sortCols)
       IN Finish(IF r.ok THEN "ok" ELSE "err", r.fs)
    /\ peakOpen' = Max(peakOpen, Len(chunks))
    /\ UNCHANGED <<family, inputs, sortCols, outPath, env, hdr, tempDirs, tempFiles, fileIdx,
                   pending, chunks, nextChunks, pass, buf, cli,
                   running, faulted>>

\* the chunk files the group tasks in tasks hold open
OpenInGroups(files, size, tasks) ==
    Cardinality({j \in 1..Len(files) : ((j - 1) \div size) \in tasks})

\* one task of group_chunks.par_iter() begins: merge_k_files_mtlog creates
\* its output and opens every chunk of its group; the tasks of the other
\* groups run on the other threads of the pool at the same time
MtGroupStart ==
    /\ pc = "mt_groups"
    /\ \E i \in pending \ running :
         LET group_path == GroupMergePath(tempDirs[Len(tempDirs)], i)
         IN /\ fs' = WriteFile(fs, group_path, <<>>)
            /\ tempFiles' = tempFiles \cup {group_path}
            /\ running' = running \cup {i}
            /\ peakOpen' = Max(peakOpen,
                               OpenInGroups(chunks, GroupSize(Len(chunks), env.groups),
                                            running \cup {i}))
    /\ UNCHANGED <<family, inputs, sortCols, outPath, env, pc, result, hdr, tempDirs,
                   fileIdx, pending, chunks, nextChunks, pass, wtr, buf, cli, faulted>>

\* the task runs its heap loop to the end and returns its group_path
MtMergeGroup ==
    /\ pc = "mt_groups"
    /\ \E i \in running :
         LET group_path == GroupMergePath(tempDirs[Len(tempDirs)], i)
             size == GroupSize(Len(chunks), env.groups)
             r == merge_k_files_mtlog(fs, GroupOf(chunks, size, i), group_path, sortCols)
         IN /\ r.ok
            /\ fs' = r.fs
            /\ pending' = pending \ {i}
            /\ running' = running \ {i}
    /\ UNCHANGED <<family, inputs, sortCols, outPath, env, pc, result, hdr, tempDirs,
                   tempFiles, fileIdx, chunks, nextChunks, pass, wtr, buf, cli, peakOpen,
                   faulted>>

\* merge_k_files_mtlog(&group_outputs, output_path, ..) once every group is done
MtMergeFinal ==
    /\ pc = "mt_groups" /\ pending = {}
    /\ LET size == GroupSize(Len(chunks), env.groups)
           group_outputs == [j \in 1..ChunkCount(Len(chunks), size) |->
                                GroupMergePath(tempDirs[Len(tempDirs)], j - 1)]
           r == merge_k_files_mtlog(fs, group_outputs, outPath, sortCols)
       IN Finish(IF r.ok THEN "ok" ELSE "err", r.fs)
    /\ peakOpen' = Max(peakOpen, ChunkCount(Len(chunks), GroupSize(Len(chunks), env.groups)))
    /\ UNCHANGED <<family, inputs, sortCols, outPath, env, hdr, tempDirs, tempFiles, fileIdx,
                   pending, chunks, nextChunks, pass, buf, cli,
                   running, faulted>>

\* an I/O operation of the current step fails; in a merge step the output
\* may already have been created (File::create comes first)
MtIoError ==
    /\ family \in {"mtlog", "mtlog_mod"}
    /\ pc \in {"mt_read", "mt_merge_all", "mt_groups"}
    /\ \E created \in BOOLEAN :
         /\ created => (pc = "mt_merge_all" \/ (pc = "mt_groups" /\ pending = {}))
         /\ Finish("err", IF created THEN WriteFile(fs, outPath, <<>>) ELSE fs)
    /\ UNCHANGED <<family, inputs, sortCols, outPath, env, hdr, tempDirs, tempFiles, fileIdx,
                   pending, chunks, nextChunks, pass, buf, cli,
                   running, peakOpen, faulted>>

NextMtlog ==
    \/ MtStart
    \/ MtReadFile
    \/ MtFinishSplit
    \/ MtMergeAll
    \/ MtGroupStart
    \/ MtMergeGroup
    \/ MtMergeFinal
    \/ MtIoError

Next == NextCsv \/ NextMtlog

Spec == Init /\ [][Next]_vars

\* the delimited engine with chunk reads that can return Err during a merge,
\* at most one per run
NextIo ==
    \/ NextCsv
    \/ CsvMergeGroupFault
    \/ CsvFinalMergeFault

\* runs of two fan-in over inputs of different file stems into a .csv output
InitIo ==
    /\ InitCsv
    /\ outPath = OutputPath("csv")
    /\ env.merge_k = 2
    /\ PathA2 \notin Range(inputs)

SpecIo == InitIo /\ [][NextIo]_vars

\* the delimited engine asked to sort by a column name the header lacks
\* ("fn"), or by one that resolves after trimming and case folding (" ID"),
\* and given an input path that names no file
StrIdSpaced == <<ChSpace, 73, 68>>
SortColumnChoices == {<<StrFull>>, <<StrIdSpaced>>}

InitCols ==
    /\ \E sort_columns \in SortColumnChoices, absent \in {{}, {PathB}} :
          InitCsvWith(CsvInputLists, sort_columns, absent)
    /\ outPath = OutputPath("csv")
    /\ env.merge_k = 2
    /\ PathA2 \notin Range(inputs)

SpecCols == InitCols /\ [][NextCsv]_vars

\* the delimited engine given its input paths in descending order
PermutedInputLists == {<<PathB, PathA>>, <<PathA2, PathA>>}

InitPerm ==
    /\ InitCsvWith(PermutedInputLists, <<StrId>>, {})
    /\ outPath = OutputPath("csv")
    /\ env.merge_k = 2

SpecPerm == InitPerm /\ [][NextCsv]_vars

\* the delimited engine when no I/O operation fails.  The run is one
\* sequential program (its parallel workers are joined by collect()), so a
\* step that can be taken is taken: weak fairness of the next step.
NextMerge ==
    \/ CsvValidate
    \/ CsvTempDir
    \/ CsvSplitChunk
    \/ CsvSplitCollect
    \/ CsvMergeOpen
    \/ CsvStartPass
    \/ CsvMergeGroup
    \/ CsvFinalMerge

\* two inputs of up to MaxRows records each, every record 9,x: from no
\* chunk to 2 * MaxRows chunks, under every fan-in
InitMerge ==
    /\ InitCsv
    /\ outPath = OutputPath("csv")
    /\ inputs = <<PathA, PathB>>
    /\ \A p \in DOMAIN fs : \A i \in 1..Len(fs[p]) : fs[p][i] \in {Header, <<Str9, StrX>>}

SpecMerge == InitMerge /\ [][NextMerge]_vars /\ WF_vars(NextMerge)

-----------------------------------------------------------------------------
(* Properties of the parallel engine                                       *)

Succeeded == pc = "done" /\ result = "ok"
Failed == pc = "done" /\ result = "err"

\* the paths of the run's inputs that exist
PresentInputs == SelectSeq(inputs, LAMBDA p : Exists(fs, p))

\* the header the inputs share
InputHeader == HeadersOf(fs[inputs[1]])

\* the rows of an input that decode: delimited rows with as many fields as
\* the header, fixed-width lines of the full record length
WellFormed(rows) ==
    IF family = "csv"
    THEN SelectSeq(Tail(rows), LAMBDA r : Len(r) = Len(rows[1]))
    ELSE SelectSeq(rows, LAMBDA l : l.len >= TOTAL_LENGTH)

ValidInputRecords == Flatten([i \in 1..Len(PresentInputs) |-> WellFormed(fs[PresentInputs[i]])])

\* the data records of the output: its rows after the header row, if it
\* starts with one
OutputRecords ==
    IF family = "csv" /\ fs[outPath] # <<>> /\ fs[outPath][1] = InputHeader
    THEN Tail(fs[outPath])
    ELSE fs[outPath]

SameBag(a, b) == \A r \in Range(a) \cup Range(b) : SeqToBagCount(a, r) = SeqToBagCount(b, r)

\* the comparator of the run
RunComparator ==
    IF family = "csv"
    THEN [kind |-> "csv", keys |-> get_sort_column_indices(InputHeader, sortCols)]
    ELSE [kind |-> "mtlog", keys |-> sortCols]

\* C1: after a successful run the multiset of data records in the output
\* equals the multiset of valid data records of all inputs: none lost, none
\* duplicated
C1_Permutation == Succeeded => SameBag(OutputRecords, ValidInputRecords)

\* C2: in the output of a successful run every adjacent pair of data records
\* is in non-decreasing order under the run's comparator
C2_Sortedness ==
    Succeeded => \A i \in 1..(Len(OutputRecords) - 1) :
                    Compare(RunComparator, OutputRecords[i], OutputRecords[i + 1]) <= 0

\* C3: after a successful run the output of the delimited family holds
\* exactly one header row, as its first line, whatever the output path; the
\* output of the fixed-width family holds record lines only
C3_HeaderUniqueness ==
    Succeeded =>
        IF family = "csv"
        THEN /\ fs[outPath] # <<>>
             /\ fs[outPath][1] = InputHeader
             /\ SeqToBagCount(fs[outPath], InputHeader) = 1
        ELSE \A i \in 1..Len(fs[outPath]) : fs[outPath][i] \in LinePool

\* some input's header differs from the header of the first validated file
HeaderMismatch ==
    /\ family = "csv"
    /\ \E i \in 2..Len(InputsSorted) :
          HeadersOf(fs[InputsSorted[i]]) # HeadersOf(fs[InputsSorted[1]])

\* C7: when the header of an input differs from that of the first validated
\* file, the run never succeeds, and at no moment is there a temporary
\* directory, a chunk file or an output file
C7_SchemaFastFail ==
    HeaderMismatch =>
        /\ result # "ok"
        /\ tempDirs = <<>>
        /\ tempFiles = {}
        /\ DOMAIN fs = Range(inputs)
        /\ pc \in {"start", "done"}

C7_Witness == HeaderMismatch /\ Failed

\* C8: no file, empty or partial, exists under the output path unless the
\* run has completed successfully; in particular none after a failed run
C8_OutputAtomicity == Exists(fs, outPath) => Succeeded

\* C9: when the run returns, with success or with an error, every chunk
\* file and intermediate merge file it created has been removed
C9_TempCleanup ==
    pc = "done" => /\ \A p \in tempFiles : ~Exists(fs, p)
                   /\ \A p \in DOMAIN fs : p.dir \notin AllTempDirs

\* ---- the run replayed on one fixed schedule: workers in index order, the
\* ---- temporary directories named TmpBase + 1, TmpBase + 2, ..

RefRecords(f) == ValidRecords(fs[InputsSorted[f + 1]], InputHeader)
RefChunkSize == ChunkSize(env.chunk_size_mb, InputHeader)
RefChunkCount(f) == ChunkCount(Len(RefRecords(f)), RefChunkSize)

\* the split: file f, chunk i, in order
RECURSIVE RefSplit(_, _, _)
RefSplit(fsys, f, i) ==
    IF f >= Len(inputs) THEN fsys
    ELSE IF i >= RefChunkCount(f) THEN RefSplit(fsys, f + 1, 0)
    ELSE RefSplit(WriteFile(fsys, ChunkPath(TmpBase + 1, InputsSorted[f + 1].key, i),
                            SplitChunkRows(RefRecords(f), RefChunkSize, i, InputHeader, sortCols)),
                  f, i + 1)

RefChunks ==
    SortChunkPaths(Flatten([f \in 1..Len(inputs) |->
        CollectChunks(TmpBase + 1, InputsSorted[f].key, RefChunkCount(f - 1))]))

RefIndices == get_sort_column_indices(InputHeader, sortCols)

\* the groups of pass p from group g on, merged k at a time: [fs, chunks]
RECURSIVE RefPass(_, _, _, _, _, _)
RefPass(fsys, current, p, g, next, k) ==
    IF g * k >= Len(current) THEN [fs |-> fsys, chunks |-> next]
    ELSE RefPass(merge_k_files(fsys, PassGroup(current, k, g),
                               MergePassPath(TmpBase + 1 + p, p, g), InputHeader, RefIndices).fs,
                 current, p, g + 1, Append(next, MergePassPath(TmpBase + 1 + p, p, g)), k)

RECURSIVE RefMerge(_, _, _, _)
RefAfterPass(r, p, k) == RefMerge(r.fs, r.chunks, p, k)

RefMerge(fsys, current, p, k) ==
    IF Len(current) > 1 THEN RefAfterPass(RefPass(fsys, current, p + 1, 0, <<>>, k), p + 1, k)
    ELSE merge_k_files(fsys, current, outPath, InputHeader, RefIndices).fs[outPath]

\* the output of the delimited run under fan-in k
RefCsvOutputK(k) == RefMerge(RefSplit(fs, 0, 0), RefChunks, 0, k)

RefCsvOutput == RefCsvOutputK(MergeK)

\* the fixed-width chunks: every input that exists, in the given order
RECURSIVE RefMtChunks(_, _, _)
RefMtConsumed(r, f) == RefMtChunks(f, r.buf, r.chunks)

RefMtChunks(f, all_lines, emitted) ==
    IF f > Len(PresentInputs)
    THEN IF all_lines = <<>> THEN emitted
         ELSE Append(emitted, SortBy(all_lines, [kind |-> "mtlog", keys |-> sortCols]))
    ELSE RefMtConsumed(MtConsume(fs[PresentInputs[f]], all_lines, emitted,
                                 env.chunk_records, sortCols), f + 1)

RefMtMerge(srcs) ==
    MergeSources(srcs, [kind |-> "line", widths |-> [i \in 1..Len(srcs) |-> 0]],
                 [kind |-> "mtlog", keys |-> sortCols])

RefMtGrouped(cs, size) ==
    RefMtMerge([g \in 1..ChunkCount(Len(cs), size) |-> RefMtMerge(GroupOf(cs, size, g - 1))])

\* the merge of the chunks cs under parallel-group count g
RefMtFrom(cs, g) ==
    IF family = "mtlog_mod" \/ g <= 1 \/ Len(cs) <= 2 THEN RefMtMerge(cs)
    ELSE RefMtGrouped(cs, GroupSize(Len(cs), g))

RefMtOutputG(g) == RefMtFrom(RefMtChunks(1, <<>>, <<>>), g)

RefMtOutput == RefMtOutputG(env.groups)

\* C10: the output of a successful run is the one the inputs, the sort
\* keys, K, G and the chunk budget determine: the order in which the
\* parallel workers finish and the names of the temporary directories leave
\* no trace in it, so two runs of the same configuration write the same
\* bytes, records with Equal keys included
C10_Determinism ==
    Succeeded => fs[outPath] = (IF family = "csv" THEN RefCsvOutput ELSE RefMtOutput)

\* a successful delimited run of several parallel workers whose output holds
\* two different records with Equal sort keys
C10_Witness ==
    /\ Succeeded /\ family = "csv"
    /\ Cardinality(tempFiles) >= 3
    /\ \E i, j \in 1..Len(OutputRecords) :
          /\ i < j
          /\ OutputRecords[i] # OutputRecords[j]
          /\ Compare(RunComparator, OutputRecords[i], OutputRecords[j]) = 0

\* C11: the output of a successful run is the same record sequence under
\* every fan-in K >= 2 (delimited family) and every parallel-group count G
\* (fixed-width family), records that share a sort key included
C11_KInvariance ==
    Succeeded =>
        IF family = "csv"
        THEN \A k \in 2..MaxK : fs[outPath] = RefCsvOutputK(k)
        ELSE \A g \in GroupChoices : fs[outPath] = RefMtOutputG(g)

\* ---- the heap loop of a merge, watched pop by pop

\* the popped entry has the smallest source index among the entries of the
\* heap h whose records compare Equal to its record
PoppedFirst(h, item, c) ==
    \A j \in 1..Len(h) : Compare(c, h[j].rec, item.rec) = 0 => item.src <= h[j].src

RECURSIVE TieBreakLoop(_, _, _, _)

TieBreakRefill(p, r, rem, rd, c) ==
    TieBreakLoop(IF r.some THEN HeapPush(p.heap, [rec |-> r.rec, src |-> p.item.src], c)
                 ELSE p.heap,
                 [rem EXCEPT ![p.item.src + 1] = r.rest], rd, c)

TieBreakPopped(h, p, rem, rd, c) ==
    /\ PoppedFirst(h, p.item, c)
    /\ TieBreakRefill(p, ReadNext(rd, rd.widths[p.item.src + 1], rem[p.item.src + 1]), rem, rd, c)

TieBreakLoop(h, rem, rd, c) ==
    IF h = <<>> THEN TRUE ELSE TieBreakPopped(h, HeapPop(h, c), rem, rd, c)

TieBreakFrom(p, rd, c) == TieBreakLoop(p.heap, p.rem, rd, c)

\* every pop of the merge of srcs obeys the tie-break
MergeTieBreak(srcs, rd, c) == TieBreakFrom(PrimeHeap(<<>>, srcs, 0, rd, c), rd, c)

\* the sources of the merge the run performs next
NextGroup == PassGroup(chunks, MergeK, Len(nextChunks))
NextCsvSources == [i \in 1..Len(NextGroup) |-> Tail(fs[NextGroup[i]])]
NextCsvReader == [kind |-> "csv", widths |-> [i \in 1..Len(NextGroup) |-> Len(hdr)]]
NextMtSources == [i \in 1..Len(chunks) |-> fs[chunks[i]]]
NextMtReader == [kind |-> "line", widths |-> [i \in 1..Len(chunks) |-> 0]]

\* C13: the merge heap is ordered by (comparator, source index): whenever
\* the heap holds entries whose records compare Equal under the sort keys,
\* the one with the smaller source index is popped and written first
C13_HeapTieBreak ==
    /\ pc = "pass" =>
          MergeTieBreak(NextCsvSources, NextCsvReader, [kind |-> "csv", keys |-> SortIndices])
    /\ pc = "mt_merge_all" =>
          MergeTieBreak(NextMtSources, NextMtReader, [kind |-> "mtlog", keys |-> sortCols])

\* C12: at every moment of the merge phase at most G x K chunk files are
\* open for reading, however many chunks the split phase produced, in the
\* delimited scheduler and in both paths of the fixed-width scheduler
C12_OpenFileBound == peakOpen <= env.groups * MergeK

\* the data rows of the run's inputs
InputRows == UNION {Range(Tail(fs[PresentInputs[i]])) : i \in 1..Len(PresentInputs)}

\* C14: compare_records is a total pre-order on the records it is given,
\* integer and non-integer values mixed in one column included: a record is
\* Equal to itself, compare(b, a) is the reverse of compare(a, b), and
\* compare(a, b) <= 0 and compare(b, c) <= 0 give compare(a, c) <= 0
C14_TotalPreorder ==
    family = "csv" =>
        \A a, b, c \in InputRows :
            /\ compare_records(a, a, RunComparator.keys) = 0
            /\ compare_records(a, b, RunComparator.keys)
                  = 0 - compare_records(b, a, RunComparator.keys)
            /\ (compare_records(a, b, RunComparator.keys) <= 0
                  /\ compare_records(b, c, RunComparator.keys) <= 0)
                 => compare_records(a, c, RunComparator.keys) <= 0

\* a data row of the input whose field count differs from the header's
Malformed(p) == \E i \in 2..Len(fs[p]) : Len(fs[p][i]) # Len(fs[p][1])

\* the chunks of the input being split that have been written so far hold
\* its well-formed rows, chunk_size at a time
WrittenChunksHold(f) ==
    \A i \in (0..(CsvChunkCount(f) - 1)) \ pending :
        SameBag(Tail(fs[ChunkPath(tempDirs[1], InputsSorted[f + 1].key, i)]),
                SubSeq(WellFormed(fs[InputsSorted[f + 1]]), i * CsvChunkSize + 1,
                       Min((i + 1) * CsvChunkSize, Len(WellFormed(fs[InputsSorted[f + 1]])))))

\* C16: a delimited data row whose field count differs from the header's is
\* skipped by the split phase and does not end the run: the well-formed
\* rows before and after it in the same file reach a chunk, and the output
\* of the successful run holds every one of them
C16_MalformedRowSkip ==
    (family = "csv" /\ \E p \in Range(inputs) : Malformed(p)) =>
        /\ pc = "split" => WrittenChunksHold(fileIdx)
        /\ Succeeded =>
              \A p \in Range(inputs) : Malformed(p) =>
                  \A r \in Range(WellFormed(fs[p])) :
                      SeqToBagCount(OutputRecords, r) >= SeqToBagCount(WellFormed(fs[p]), r)

\* C17: when a read of a chunk fails with an I/O error during a k-way merge,
\* while priming the heap or while refilling after a pop, the merge returns
\* an error and the run fails
C17_ReadErrorAborts == faulted.kind = "io" => Failed

\* the data records of a merge output: the rows after its header row
MergedRecords(p) == IF HasCsvExt(p) THEN Tail(fs[p]) ELSE fs[p]

\* C18: when a record of a chunk does not decode during a k-way merge, only
\* that record is lost: the merge output holds every other record of the
\* merged chunks, the later records of the same chunk included
C18_DecodeErrorSkipsOne ==
    (faulted.kind = "decode" /\ Exists(fs, faulted.out)) =>
        SameBag(MergedRecords(faulted.out), faulted.expect)

\* C19: a fixed-width input line shorter than the record length L = 4310 is
\* skipped: it enters no chunk, no intermediate merge file and no output
C19_ShortLineSkip ==
    family \in {"mtlog", "mtlog_mod"} =>
        \A p \in DOMAIN fs : p.kind # "in" =>
            \A i \in 1..Len(fs[p]) : fs[p][i].len >= TOTAL_LENGTH

\* C20: every chunk file and intermediate merge file of a run has a name of
\* its own, also when two inputs in different directories share a file
\* stem: no worker writes to a path that holds a chunk already, and the
\* chunk list names no path twice
C20_UniqueChunkNames ==
    /\ \A i, j \in 1..Len(chunks) : i # j => chunks[i] # chunks[j]
    /\ pc = "split" =>
          \A i \in pending :
              ~Exists(fs, ChunkPath(tempDirs[1], InputsSorted[fileIdx + 1].key, i))
    /\ pc = "pass" =>
          ~Exists(fs, MergePassPath(tempDirs[Len(tempDirs)], pass, Len(nextChunks)))

\* the groups the scheduler splits the chunk list into, for the pass the run
\* is in: current_chunks.chunks(k) of the delimited pass loop, the single
\* merge or chunk_files.chunks(group_size) of the fixed-width family
GroupsOfPass ==
    IF pc = "pass"
    THEN [g \in 1..ChunkCount(Len(chunks), MergeK) |-> PassGroup(chunks, MergeK, g - 1)]
    ELSE IF pc = "mt_merge_all" /\ Len(chunks) > 1 THEN <<chunks>>
    ELSE IF pc = "mt_groups"
    THEN [g \in 1..ChunkCount(Len(chunks), GroupSize(Len(chunks), env.groups)) |->
             GroupOf(chunks, GroupSize(Len(chunks), env.groups), g - 1)]
    ELSE <<>>

\* C21: a merge pass over n chunks with fan-in K and group count G splits
\* the chunk list into contiguous groups: exactly G groups whose sizes differ
\* by at most one when n > K x G, groups of at most K chunks otherwise
C21_GroupingRule ==
    GroupsOfPass # <<>> =>
        /\ Flatten(GroupsOfPass) = chunks
        /\ IF Len(chunks) > MergeK * env.groups
           THEN /\ Len(GroupsOfPass) = env.groups
                /\ \A i, j \in 1..Len(GroupsOfPass) :
                      Len(GroupsOfPass[i]) - Len(GroupsOfPass[j]) <= 1
           ELSE \A i \in 1..Len(GroupsOfPass) : Len(GroupsOfPass[i]) \in 1..MergeK

\* C22: when none of the requested sort-column names resolves to a header
\* field, the run sorts by field 0: the output of the successful run is
\* non-decreasing on field 0
C22_FallbackFieldZero ==
    (family = "csv" /\ Succeeded /\ get_sort_column_indices(InputHeader, sortCols) = <<>>) =>
        \A i \in 1..(Len(OutputRecords) - 1) :
            compare_records(OutputRecords[i], OutputRecords[i + 1], <<0>>) <= 0

\* C23: an input path that cannot be opened (it names no file) is fatal in
\* the delimited and in the fixed-width pipeline: the run never returns Ok,
\* with an output built from the remaining inputs or otherwise
C23_MissingInputFatal ==
    (\E i \in 1..Len(inputs) : ~Exists(fs, inputs[i])) => result # "ok"

\* C24: a chunk file is an input of exactly one merge, and the inputs of a
\* pass are deleted once all its groups have finished: when pass p + 1
\* starts, the chunk list names no file twice and the only chunk files and
\* intermediate files that exist are the outputs of pass p
C24_ChunkLifecycle ==
    (pc = "pass" /\ pass >= 2 /\ nextChunks = <<>>) =>
        /\ \A i, j \in 1..Len(chunks) : i # j => chunks[i] # chunks[j]
        /\ \A p \in tempFiles : Exists(fs, p) => p \in Range(chunks)

\* ---- the heap of a merge, watched from priming to the last pop

HeapSources(h) == {h[j].src : j \in 1..Len(h)}

\* the heap holds at most n entries, each of a source of its own
HeapWithin(h, n) ==
    /\ Len(h) <= n
    /\ HeapSources(h) \subseteq 0..(n - 1)
    /\ \A i, j \in 1..Len(h) : i # j => h[i].src # h[j].src

RECURSIVE HeapBoundLoop(_, _, _, _)

\* the only entry the refill added is one of the source just popped
HeapBoundPushed(h, p, rem, rd, c) ==
    /\ HeapSources(h) \subseteq HeapSources(p.heap) \cup {p.item.src}
    /\ Len(h) <= Len(p.heap) + 1
    /\ HeapBoundLoop(h, rem, rd, c)

HeapBoundRefill(p, r, rem, rd, c) ==
    HeapBoundPushed(Refill(p.heap, p.item, r, c), p, [rem EXCEPT ![p.item.src + 1] = r.rest],
                    rd, c)

HeapBoundPopped(p, rem, rd, c) ==
    HeapBoundRefill(p, ReadNext(rd, rd.widths[p.item.src + 1], rem[p.item.src + 1]), rem, rd, c)

HeapBoundLoop(h, rem, rd, c) ==
    /\ HeapWithin(h, Len(rem))
    /\ h = <<>> \/ HeapBoundPopped(HeapPop(h, c), rem, rd, c)

HeapBoundFrom(p, rd, c) == HeapBoundLoop(p.heap, p.rem, rd, c)

\* the heap of the merge of srcs keeps its bound at every step
MergeHeapBound(srcs, rd, c) == HeapBoundFrom(PrimeHeap(<<>>, srcs, 0, rd, c), rd, c)

\* C25: at every step of a k-way merge over K source chunks the heap holds
\* at most K entries and at most one entry per source index; after priming,
\* an entry of source i is pushed only right after an entry of source i was
\* popped
C25_HeapBound ==
    /\ pc = "pass" =>
          MergeHeapBound(NextCsvSources, NextCsvReader, [kind |-> "csv", keys |-> SortIndices])
    /\ pc = "mt_merge_all" =>
          MergeHeapBound(NextMtSources, NextMtReader, [kind |-> "mtlog", keys |-> sortCols])

\* a merge of two chunks is about to run, one of them holding two records:
\* the heap is primed with two entries and refilled after a pop
C25_Witness ==
    \/ /\ pc = "pass" /\ Len(NextGroup) = 2
       /\ \E i \in 1..2 : Len(NextCsvSources[i]) = 2
    \/ /\ pc = "mt_merge_all" /\ Len(chunks) = 2
       /\ \E i \in 1..2 : Len(NextMtSources[i]) = 2

\* what is left of the merge phase: the chunks of the current list and, in
\* second place, the steps left before the list is replaced
MergeVariant ==
    [m |-> IF pc = "done" THEN 0 ELSE Len(chunks),
     g |-> IF pc = "merge_loop" THEN ChunkCount(Len(chunks), MergeK) + 1
           ELSE IF pc = "pass" THEN ChunkCount(Len(chunks), MergeK) - Len(nextChunks)
           ELSE 0]

\* the lexicographic order on pairs of naturals, which is well-founded
VariantLess(a, b) == a.m < b.m \/ (a.m = b.m /\ a.g < b.g)

ChunkFiles == {p \in DOMAIN fs : p.kind \in {"chunk_parallel", "merge_pass"}}

\* out_path of the group the pass merges next
NextPassPath == MergePassPath(tempDirs[Len(tempDirs)], pass, Len(nextChunks))

SplitInput == InputsSorted[fileIdx + 1]
SplitValid == WellFormed(fs[SplitInput])
SplitReturned == CollectChunks(tempDirs[1], SplitInput.key, CsvChunkCount(fileIdx))

\* the data records of the chunk returned in place j
ReturnedRecords(j) == Tail(fs[SplitReturned[j]])

\* C28: when the chunk producer returns for an input, the chunk returned in
\* place i (counted from 0) holds the valid records at positions
\* i * chunk_size .. (i + 1) * chunk_size - 1 of the input, at least one and
\* at most chunk_size of them, in non-decreasing order under the
\* comparator; the chunks together hold each valid record exactly once
C28_ChunkProducer ==
    (pc = "split" /\ pending = {}) =>
        /\ \A j \in 1..Len(SplitReturned) :
              /\ Exists(fs, SplitReturned[j])
              /\ Len(ReturnedRecords(j)) \in 1..CsvChunkSize
              /\ SameBag(ReturnedRecords(j),
                         SubSeq(SplitValid, (j - 1) * CsvChunkSize + 1,
                                Min(j * CsvChunkSize, Len(SplitValid))))
              /\ \A n \in 1..(Len(ReturnedRecords(j)) - 1) :
                    Compare(RunComparator, ReturnedRecords(j)[n], ReturnedRecords(j)[n + 1]) <= 0
        /\ SameBag(Flatten([j \in 1..Len(SplitReturned) |-> ReturnedRecords(j)]), SplitValid)

\* the producer has returned one chunk of two records, which the sort put
\* in another order than the input has them in
C28_Witness ==
    /\ pc = "split" /\ pending = {}
    /\ Len(SplitReturned) = 1
    /\ Len(ReturnedRecords(1)) = 2
    /\ ReturnedRecords(1) # SplitValid

\* every input of the delimited run holds its header row and no valid record
NoValidRecord == family = "csv" /\ inputs # <<>> /\ ValidInputRecords = <<>>

\* C29: when every input of the delimited run holds a header and no valid
\* data record, the split phase yields no chunk and the run returns an error
\* at the emptiness test of the merge phase: it never enters the pass loop,
\* never creates the output file and never returns Ok with a header-only
\* output
C29_EmptyDataFails ==
    NoValidRecord =>
        /\ result # "ok"
        /\ ~Exists(fs, outPath)
        /\ chunks = <<>> /\ tempFiles = {}
        /\ pc \notin {"merge_loop", "pass"}
        /\ pc = "merge_open" => ENABLED (CsvMergeOpen /\ result' = "err")

\* the split phase of such a run has ended, one of the inputs holding a row
\* that was skipped as malformed
C29_Witness ==
    /\ NoValidRecord /\ pc = "merge_open"
    /\ \E p \in Range(inputs) : Malformed(p)

\* ---- the run replayed over the input list ins, in the order of ins

OrderedRecords(ins, f) == ValidRecords(fs[ins[f + 1]], InputHeader)
OrderedChunkCount(ins, f) == ChunkCount(Len(OrderedRecords(ins, f)), RefChunkSize)

RECURSIVE OrderedSplit(_, _, _, _)
OrderedSplit(ins, fsys, f, i) ==
    IF f >= Len(ins) THEN fsys
    ELSE IF i >= OrderedChunkCount(ins, f) THEN OrderedSplit(ins, fsys, f + 1, 0)
    ELSE OrderedSplit(ins,
                      WriteFile(fsys, ChunkPath(TmpBase + 1, ins[f + 1].key, i),
                                SplitChunkRows(OrderedRecords(ins, f), RefChunkSize, i,
                                               InputHeader, sortCols)),
                      f, i + 1)

OrderedChunks(ins) ==
    SortChunkPaths(Flatten([f \in 1..Len(ins) |->
        CollectChunks(TmpBase + 1, ins[f].key, OrderedChunkCount(ins, f - 1))]))

OrderedOutput(ins) == RefMerge(OrderedSplit(ins, fs, 0, 0), OrderedChunks(ins), 0, MergeK)

\* the one arrangement of the input paths in ascending order of their path
\* strings, which all permutations of the list share
AscendingInputs ==
    CHOOSE s \in [1..Len(inputs) -> Range(inputs)] :
        \A i, j \in 1..Len(inputs) : i < j => StrCmp(PathStr(s[i]), PathStr(s[j])) < 0

FileNames(paths) == [j \in 1..Len(paths) |-> paths[j].key]

\* C30: whatever the order in which the caller lists the distinct input
\* paths, the run merges the chunks, and writes the output, of the run over
\* the paths in ascending order: every permutation of the list gives the
\* same chunk list and the same output record sequence
C30_InputOrderInvariance ==
    family = "csv" =>
        /\ pc = "merge_open" => FileNames(chunks) = FileNames(OrderedChunks(AscendingInputs))
        /\ Succeeded => fs[outPath] = OrderedOutput(AscendingInputs)

\* a successful run whose caller listed the paths in descending order, over
\* inputs that hold different records
C30_Witness ==
    /\ Succeeded /\ family = "csv"
    /\ Len(inputs) = 2 /\ inputs # AscendingInputs
    /\ Tail(fs[inputs[1]]) # Tail(fs[inputs[2]])
    /\ Len(OutputRecords) >= 2

-----------------------------------------------------------------------------
(* The command line tools: src/main.rs (family "main") and src/bin/main.rs *)
(* (family "bin"), commands merge and split                                *)

CliChunkRows == 2    \* external_sort's CHUNK_SIZE (10,000 in src/main.rs), scaled down
MaxCliRows == 3      \* data rows per input file of a command line run
MaxRowsPerFile == 2  \* largest --rows tried

\* a reader that hands out the first row as a record too
CsvRecords_with_first_row(rows) == rows

\* the records a csv reader with has_headers(true) yields after the first
\* row, and whether each decodes: a row whose field count differs from the
\* first row's is an Err
CsvRecords(rows) == IF rows = <<>> THEN <<>> ELSE Tail(rows)

Decodes(rows, r) == Len(r) = Len(rows[1])

AllDecode(rows) == \A i \in 2..Len(rows) : Decodes(rows, rows[i])

\* the records before the first Err
RECURSIVE DecodedPrefix(_, _)
DecodedPrefix(rows, i) ==
    IF i > Len(rows) \/ ~Decodes(rows, rows[i]) THEN <<>>
    ELSE <<rows[i]>> \o DecodedPrefix(rows, i + 1)

\* std::fs::copy / std::fs::rename
CopyFile(fsys, from, to) == WriteFile(fsys, to, fsys[from])

RenameFile(fsys, from, to) ==
    [q \in (DOMAIN fsys \ {from}) \cup {to} |-> IF q = to THEN fsys[from] ELSE fsys[q]]

\* temp_dir.join(format!("chunk_{}.csv", chunk_num))
CliChunkPath(d, chunk_num) == [dir |-> d, kind |-> "chunk", key |-> DecStr(chunk_num), ext |-> "csv"]

\* temp_dir.join(format!("sorted_{}.csv", index))
SortedPath(d, index) == [dir |-> d, kind |-> "sorted", key |-> DecStr(index), ext |-> "csv"]

\* temp_path.join("sorted.csv")
SortedOnePath(d) == [dir |-> d, kind |-> "sorted", key |-> <<>>, ext |-> "csv"]

\* format!("{:04}", n)
Pad4(n) == [i \in 1..(4 - Len(DecStr(n))) |-> Ch0] \o DecStr(n)

\* format!("{}/{}_part_{:04}.csv", output_dir, file_stem, chunk_num + 1) in
\* src/main.rs; src/bin/main.rs numbers the parts from 0
PartPath(bin, file_stem, chunk_num) ==
    [dir |-> OutDir, kind |-> "part",
     key |-> file_stem \o <<ChUnderscore>> \o Pad4(IF bin = "main" THEN chunk_num + 1 ELSE chunk_num),
     ext |-> "csv"]

\* sort_columns.iter().filter_map(|col| headers.iter().position(|h| h == *col))
RECURSIVE column_indices_of(_, _)
column_indices_of(headers, sort_columns) ==
    IF sort_columns = <<>> THEN <<>>
    ELSE LET hits == {i \in 1..Len(headers) : headers[i] = Head(sort_columns)}
         IN (IF hits = {} THEN <<>> ELSE <<(CHOOSE i \in hits : \A j \in hits : i <= j) - 1>>)
            \o column_indices_of(headers, Tail(sort_columns))

\* headers.iter().enumerate().filter(|(_, h)| sort_columns.contains(h)).map(|(i, _)| i)
RECURSIVE header_indices_of(_, _, _)
header_indices_of(headers, sort_columns, i) ==
    IF i > Len(headers) THEN <<>>
    ELSE (IF headers[i] \in Range(sort_columns) THEN <<i - 1>> ELSE <<>>)
         \o header_indices_of(headers, sort_columns, i + 1)

\* sort_and_write_chunk for every chunk of CHUNK_SIZE records: the chunk
\* files hold the sorted records and no header
RECURSIVE WriteSortedChunks(_, _, _, _, _)
WriteSortedChunks(fsys, records, column_indices, temp_dir, n) ==
    IF n * CliChunkRows >= Len(records) THEN fsys
    ELSE WriteSortedChunks(
            WriteFile(fsys, CliChunkPath(temp_dir, n),
                      SortBy(SubSeq(records, n * CliChunkRows + 1,
                                    Min((n + 1) * CliChunkRows, Len(records))),
                             [kind |-> "cli", keys |-> column_indices])),
            records, column_indices, temp_dir, n + 1)

\* SortedChunk: [rec, src], rec the current_record option of chunk src
ChunkItem(rem, i) ==
    [rec |-> IF rem[i + 1] = <<>> THEN [some |-> FALSE, rec |-> <<>>]
             ELSE [some |-> TRUE, rec |-> Head(rem[i + 1])],
     src |-> i]

Advance(rem, i) == [rem EXCEPT ![i + 1] = IF rem[i + 1] = <<>> THEN <<>> ELSE Tail(rem[i + 1])]

\* for path in chunk_files { chunks.push(SortedChunk::new(path)) }
RECURSIVE PushChunks(_, _, _)
PushChunks(h, rem, i) ==
    IF i >= Len(rem) THEN [heap |-> h, rem |-> rem]
    ELSE PushChunks(HeapPush(h, ChunkItem(rem, i), [kind |-> "sorted_chunk"]), Advance(rem, i), i + 1)

\* while let Some(mut chunk) = chunks.pop(): next_record() hands out the
\* current record and reads the next; the chunk is pushed back, and dropped
\* once it is popped with no current record
RECURSIVE ChunkMergeLoop(_, _, _)
ChunkPopped(item, heap, rem, out) ==
    IF item.rec.some
    THEN ChunkMergeLoop(HeapPush(heap, ChunkItem(rem, item.src), [kind |-> "sorted_chunk"]),
                        Advance(rem, item.src), Append(out, item.rec.rec))
    ELSE ChunkMergeLoop(heap, rem, out)

PopChunk(p, rem, out) == ChunkPopped(p.item, p.heap, rem, out)

ChunkMergeLoop(h, rem, out) ==
    IF h = <<>> THEN out ELSE PopChunk(HeapPop(h, [kind |-> "sorted_chunk"]), rem, out)

MergeFrom(p) == ChunkMergeLoop(p.heap, p.rem, <<>>)

\* merge_sorted_chunks (src/main.rs)
merge_sorted_chunks(fsys, chunk_files, output_path, headers) ==
    IF Len(chunk_files) = 1 THEN RenameFile(fsys, chunk_files[1], output_path)
    ELSE WriteFile(fsys, output_path,
                   <<headers>> \o MergeFrom(PushChunks(<<>>, [i \in 1..Len(chunk_files) |->
                                                                fsys[chunk_files[i]]], 0)))

SortedChunkFiles(temp_dir, n) == [j \in 1..ChunkCount(n, CliChunkRows) |-> CliChunkPath(temp_dir, j - 1)]

\* external_sort (src/main.rs): [ok, fs]
external_sort(fsys, input_path, output_path, sort_columns, temp_dir) ==
    IF ~Exists(fsys, input_path) THEN [ok |-> FALSE, fs |-> fsys]
    ELSE IF sort_columns = <<>> THEN [ok |-> TRUE, fs |-> CopyFile(fsys, input_path, output_path)]
    ELSE IF column_indices_of(HeadersOf(fsys[input_path]), sort_columns) = <<>>
            \/ ~AllDecode(fsys[input_path])
        THEN [ok |-> FALSE, fs |-> fsys]
    ELSE [ok |-> TRUE,
          fs |-> merge_sorted_chunks(
                    WriteSortedChunks(fsys, CsvRecords(fsys[input_path]),
                                      column_indices_of(HeadersOf(fsys[input_path]), sort_columns),
                                      temp_dir, 0),
                    SortedChunkFiles(temp_dir, Len(CsvRecords(fsys[input_path]))),
                    output_path, HeadersOf(fsys[input_path]))]

\* external_sort (src/bin/main.rs): all records read, sorted and written
\* after the header; [ok, fs]
bin_external_sort(fsys, input_path, output_path, sort_columns) ==
    IF ~Exists(fsys, input_path) THEN [ok |-> FALSE, fs |-> fsys]
    ELSE IF column_indices_of(HeadersOf(fsys[input_path]), sort_columns) = <<>>
            \/ ~AllDecode(fsys[input_path])
        THEN [ok |-> FALSE, fs |-> fsys]
    ELSE [ok |-> TRUE,
          fs |-> WriteFile(fsys, output_path,
                    <<HeadersOf(fsys[input_path])>>
                    \o SortBy(CsvRecords(fsys[input_path]),
                              [kind |-> "fields",
                               keys |-> column_indices_of(HeadersOf(fsys[input_path]), sort_columns)]))]

\* the records of the files up to the first Err, file after file
RECURSIVE RecordsUntilErr(_, _, _)
RecordsUntilErr(fsys, files, i) ==
    IF i > Len(files) THEN <<>>
    ELSE IF AllDecode(fsys[files[i]])
        THEN CsvRecords(fsys[files[i]]) \o RecordsUntilErr(fsys, files, i + 1)
    ELSE DecodedPrefix(fsys[files[i]], 2)

AllFilesDecode(fsys, files) == \A i \in 1..Len(files) : AllDecode(fsys[files[i]])

\* all_records.sort_by(..) over header_indices, when there are any
SortAllRecords(all_records, header_indices) ==
    IF header_indices = <<>> THEN all_records
    ELSE SortBy(all_records, [kind |-> "fields", keys |-> header_indices])

\* merge_sorted_files (src/main.rs): [ok, fs].  The output is created and
\* the header buffered before any record is read; an Err from a reader
\* returns, and the writer's drop flushes what was written so far.
merge_sorted_files(fsys, sorted_files, output_file, headers, sort_columns) ==
    IF \E i \in 1..Len(sorted_files) : ~Exists(fsys, sorted_files[i])
    THEN [ok |-> FALSE, fs |-> fsys]
    ELSE IF sort_columns # <<>>
    THEN IF AllFilesDecode(fsys, sorted_files)
         THEN [ok |-> TRUE,
               fs |-> WriteFile(fsys, output_file,
                         <<headers>> \o SortAllRecords(RecordsUntilErr(fsys, sorted_files, 1),
                                                      header_indices_of(headers, sort_columns, 1)))]
         ELSE [ok |-> FALSE, fs |-> WriteFile(fsys, output_file, <<headers>>)]
    ELSE [ok |-> AllFilesDecode(fsys, sorted_files),
          fs |-> WriteFile(fsys, output_file, <<headers>> \o RecordsUntilErr(fsys, sorted_files, 1))]

\* concatenate_files (src/bin/main.rs): [ok, fs]
concatenate_files(fsys, files, output_file, headers) ==
    [ok |-> AllFilesDecode(fsys, files),
     fs |-> WriteFile(fsys, output_file, <<headers>> \o RecordsUntilErr(fsys, files, 1))]

\* process_input_file (src/main.rs): [ok, fs]
process_input_file(fsys, file_path, index, sort_columns, temp_dir) ==
    IF sort_columns = <<>>
    THEN [ok |-> TRUE, fs |-> CopyFile(fsys, file_path, SortedPath(temp_dir, index))]
    ELSE external_sort(fsys, file_path, SortedPath(temp_dir, index), sort_columns, temp_dir)

CliRowPool == {<<Str9, StrX>>, <<Str10, StrX>>, <<Str1a, StrX>>, <<Str9>>}

CliSortChoices == {<<>>, <<StrId>>, <<StrFull>>}

InitCli ==
    /\ family \in {"main", "bin"}
    /\ cli \in {"merge", "split"}
    /\ inputs \in (IF cli = "merge" THEN {<<PathA>>, <<PathA, PathB>>} ELSE {<<PathA>>})
    /\ sortCols \in (IF cli = "merge" /\ family = "bin" THEN {<<>>} ELSE CliSortChoices)
    /\ outPath = OutputPath("csv")
    /\ env \in [rows : IF cli = "split" THEN 1..MaxRowsPerFile ELSE {1}]
    /\ \E rows \in [Range(inputs) -> SeqsUpTo(CliRowPool, MaxCliRows)],
          hb \in {Header, OtherHeader} :
            /\ (PathB \notin Range(inputs) => hb = Header)
            /\ fs = [p \in Range(inputs) |-> <<IF p = PathB THEN hb ELSE Header>> \o rows[p]]
    /\ pc = "cli_start"
    /\ result = "running"
    /\ hdr = <<>>
    /\ tempDirs = <<>>
    /\ tempFiles = {}
    /\ fileIdx = 0
    /\ pending = {}
    /\ chunks = <<>>
    /\ nextChunks = <<>>
    /\ pass = 0
    /\ wtr = NoWriter
    /\ buf = <<>>
    /\ running = {}
    /\ peakOpen = 0
    /\ faulted = NoFault

\* merge_csv_files (src/main.rs) up to its loop over the inputs
CliMergeStart ==
    /\ pc = "cli_start" /\ cli = "merge" /\ family = "main"
    /\ IF Len(inputs) = 1 /\ sortCols = <<>>
       THEN /\ Finish("ok", CopyFile(fs, inputs[1], outPath))
            /\ UNCHANGED tempDirs
       ELSE /\ \E d \in FreshDirs(AllTempDirs) : tempDirs' = <<d>>
            /\ pc' = "cli_process"
            /\ UNCHANGED <<result, fs, wtr>>
    /\ UNCHANGED <<family, inputs, sortCols, outPath, env, hdr, tempFiles, fileIdx, pending,
                   chunks, nextChunks, pass, buf, cli,
                   running, peakOpen, faulted>>

\* one iteration of `for (i, file_path) in input_files.iter().enumerate()`
CliProcessInput ==
    /\ pc = "cli_process" /\ fileIdx < Len(inputs)
    /\ LET r == process_input_file(fs, inputs[fileIdx + 1], fileIdx, sortCols, tempDirs[1])
       IN IF r.ok
          THEN /\ fs' = r.fs
               /\ chunks' = Append(chunks, SortedPath(tempDirs[1], fileIdx))
               /\ fileIdx' = fileIdx + 1
               /\ UNCHANGED <<pc, result, wtr>>
          ELSE /\ Finish("err", fs)
               /\ UNCHANGED <<chunks, fileIdx>>
    /\ UNCHANGED <<family, inputs, sortCols, outPath, env, hdr, tempDirs, tempFiles, pending,
                   nextChunks, pass, buf, cli,
                   running, peakOpen, faulted>>

\* the headers of the first input, then the rename of the single sorted
\* file or merge_sorted_files
CliMergeFinish ==
    /\ pc = "cli_process" /\ fileIdx = Len(inputs)
    /\ IF Len(chunks) = 1
       THEN Finish("ok", RenameFile(fs, chunks[1], outPath))
       ELSE LET r == merge_sorted_files(fs, chunks, outPath, HeadersOf(fs[inputs[1]]), sortCols)
            IN Finish(IF r.ok THEN "ok" ELSE "err", r.fs)
    /\ UNCHANGED <<family, inputs, sortCols, outPath, env, hdr, tempDirs, tempFiles, fileIdx,
                   pending, chunks, nextChunks, pass, buf, cli,
                   running, peakOpen, faulted>>

\* merge_csv_files (src/bin/main.rs) without sort columns
BinMerge ==
    /\ pc = "cli_start" /\ cli = "merge" /\ family = "bin" /\ sortCols = <<>>
    /\ LET r == concatenate_files(fs, inputs, outPath, HeadersOf(fs[inputs[1]]))
       IN Finish(IF r.ok THEN "ok" ELSE "err", r.fs)
    /\ UNCHANGED <<family, inputs, sortCols, outPath, env, hdr, tempDirs, tempFiles, fileIdx,
                   pending, chunks, nextChunks, pass, buf, cli,
                   running, peakOpen, faulted>>

\* split_csv_file up to its loop: the temporary directory, the sort when
\* asked for, the reader on the (sorted) file and its headers
SortForSplit(d) ==
    IF sortCols = <<>> THEN [ok |-> TRUE, fs |-> fs]
    ELSE IF family = "main" THEN external_sort(fs, inputs[1], SortedOnePath(d), sortCols, d)
    ELSE bin_external_sort(fs, inputs[1], SortedOnePath(d), sortCols)

SplitSource(d) == IF sortCols = <<>> THEN inputs[1] ELSE SortedOnePath(d)

CliSplitStart ==
    /\ pc = "cli_start" /\ cli = "split"
    /\ \E d \in FreshDirs(AllTempDirs) :
         LET r == SortForSplit(d)
         IN IF r.ok
            THEN /\ tempDirs' = <<d>>
                 /\ fs' = r.fs
                 /\ hdr' = HeadersOf(r.fs[SplitSource(d)])
                 /\ buf' = CsvRecords(r.fs[SplitSource(d)])
                 /\ pass' = 0
                 /\ pc' = "cli_split"
                 /\ UNCHANGED <<result, wtr>>
            ELSE /\ Finish("err", fs)
                 /\ UNCHANGED <<tempDirs, hdr, buf, pass>>
    /\ UNCHANGED <<family, inputs, sortCols, outPath, env, tempFiles, fileIdx, pending,
                   chunks, nextChunks, cli,
                   running, peakOpen, faulted>>

\* the records read up to the next write_chunk, and the write
CliSplitPart ==
    /\ pc = "cli_split" /\ buf # <<>>
    /\ LET n == Min(env.rows, Len(buf))
       IN IF \E i \in 1..n : Len(buf[i]) # Len(hdr)
          THEN /\ Finish("err", fs)
               /\ UNCHANGED <<buf, pass>>
          ELSE /\ fs' = WriteFile(fs, PartPath(family, inputs[1].key, pass),
                                  <<hdr>> \o SubSeq(buf, 1, n))
               /\ buf' = SubSeq(buf, n + 1, Len(buf))
               /\ pass' = pass + 1
               /\ UNCHANGED <<pc, result, wtr>>
    /\ UNCHANGED <<family, inputs, sortCols, outPath, env, hdr, tempDirs, tempFiles, fileIdx,
                   pending, chunks, nextChunks, cli,
                   running, peakOpen, faulted>>

CliSplitDone ==
    /\ pc = "cli_split" /\ buf = <<>>
    /\ Finish("ok", fs)
    /\ UNCHANGED <<family, inputs, sortCols, outPath, env, hdr, tempDirs, tempFiles, fileIdx,
                   pending, chunks, nextChunks, pass, buf, cli,
                   running, peakOpen, faulted>>

NextCli ==
    \/ CliMergeStart
    \/ CliProcessInput
    \/ CliMergeFinish
    \/ BinMerge
    \/ CliSplitStart
    \/ CliSplitPart
    \/ CliSplitDone

SpecCli == InitCli /\ [][NextCli]_vars

-----------------------------------------------------------------------------
(* Properties of the command line tools *)

\* the data records of the input files, file after file
CliInputData == Flatten([i \in 1..Len(inputs) |-> Tail(fs[inputs[i]])])

CliSameHeader == \A i \in 1..Len(inputs) : fs[inputs[i]][1] = fs[inputs[1]][1]

\* the sort column's position in the header, for a column the header holds
CliSortKeys == column_indices_of(fs[inputs[1]][1], sortCols)

\* C4: `merge --sort-by <col>` (src/main.rs) over inputs that start with the
\* same header: the output is the header line followed by every data
\* record of every input, none missing and none added, in ascending order
\* of the sort column (here: in the byte order the tool compares with)
C4_MergeSorted ==
    (Succeeded /\ cli = "merge" /\ family = "main" /\ sortCols # <<>> /\ CliSameHeader) =>
        /\ fs[outPath] # <<>>
        /\ fs[outPath][1] = fs[inputs[1]][1]
        /\ SameBag(Tail(fs[outPath]), CliInputData)
        /\ \A i \in 2..(Len(fs[outPath]) - 1) :
              cli_compare_fields(fs[outPath][i], fs[outPath][i + 1], CliSortKeys) <= 0

\* C5: `merge` without sort columns over two or more inputs: the first
\* line of the output is the header of the first input, the header appears
\* once, and the records after it are exactly the data records of all
\* inputs: as many as the inputs hold together, no header line among them
C5_MergeUnsorted ==
    (Succeeded /\ cli = "merge" /\ sortCols = <<>> /\ Len(inputs) >= 2) =>
        /\ fs[outPath] # <<>>
        /\ fs[outPath][1] = fs[inputs[1]][1]
        /\ SeqToBagCount(fs[outPath], fs[inputs[1]][1]) = 1
        /\ Len(fs[outPath]) - 1 = Len(CliInputData)
        /\ SameBag(Tail(fs[outPath]), CliInputData)
        /\ \A i \in 2..Len(fs[outPath]) : \A j \in 1..Len(inputs) :
              fs[outPath][i] # fs[inputs[j]][1]

\* a successful unsorted merge of two inputs that both hold data records,
\* the second under a header of its own
C5_Witness ==
    /\ Succeeded /\ cli = "merge" /\ sortCols = <<>> /\ Len(inputs) = 2
    /\ Len(fs[inputs[1]]) >= 2 /\ Len(fs[inputs[2]]) >= 3
    /\ Len(fs[outPath]) >= 4

PartFiles == {p \in DOMAIN fs : p.kind = "part"}

\* how often record r occurs among the data records of the files in paths
RECURSIVE CountInParts(_, _)
CountInParts(paths, r) ==
    IF paths = {} THEN 0
    ELSE LET p == CHOOSE q \in paths : TRUE
         IN SeqToBagCount(Tail(fs[p]), r) + CountInParts(paths \ {p}, r)

\* C6: `split <input> <dir> --rows N`, with or without --sort-by: every
\* part file starts with the input's header line and holds at most N data
\* records, and the data records of all part files together are, as a
\* multiset, the data records of the input
C6_Split ==
    (Succeeded /\ cli = "split") =>
        /\ \A p \in PartFiles :
              /\ fs[p] # <<>>
              /\ fs[p][1] = fs[inputs[1]][1]
              /\ Len(fs[p]) - 1 <= env.rows
        /\ \A r \in Range(CliInputData) \cup UNION {Range(Tail(fs[p])) : p \in PartFiles} :
              CountInParts(PartFiles, r) = SeqToBagCount(CliInputData, r)

\* every key field of the record holds an integer
KeysParse(a, keys) == \A j \in 1..Len(keys) : ParseI64(FieldOr(a, keys[j])).ok

\* the keys walked in order, each compared by numeric value; the first
\* result that is not Equal
RECURSIVE NumericKeyOrder(_, _, _)
NumericKeyOrder(a, b, keys) ==
    IF keys = <<>> THEN 0
    ELSE OrElse(IntCmp(ParseI64(FieldOr(a, Head(keys))).val, ParseI64(FieldOr(b, Head(keys))).val),
                NumericKeyOrder(a, b, Tail(keys)))

\* C15: every comparison that sorts by the user's keys (compare_records of
\* the engine, the comparator of external_sort in src/main.rs, the closures
\* of merge_sorted_files and of external_sort in src/bin/main.rs) walks the
\* keys in order and orders two records whose key fields are integers by
\* numeric value, so that 2, 10, 1 come out as 1, 2, 10
C15_NumericKeyOrder ==
    \A a, b \in Range(CliInputData) :
        (KeysParse(a, CliSortKeys) /\ KeysParse(b, CliSortKeys)) =>
            /\ compare_records(a, b, CliSortKeys) = NumericKeyOrder(a, b, CliSortKeys)
            /\ cli_compare_records(a, b, CliSortKeys) = NumericKeyOrder(a, b, CliSortKeys)
            /\ cli_compare_fields(a, b, CliSortKeys) = NumericKeyOrder(a, b, CliSortKeys)

====
